---- MODULE Spec2Model ----
(***************************************************************************)
(* A model of aws_org_view.AwsOrgView (src/src/aws_org_view/query.py):     *)
(* the ancestor-membership walk account_in_haystack, the cached parent     *)
(* resolution _get_parent, and the cached hierarchy retrieval              *)
(* get_ou_hierarchy with OUMembershipRetrieverResult.get_accounts.         *)
(*                                                                         *)
(* The remote AWS Organizations directory is the environment: it is chosen *)
(* in the initial state and answers list_parents and the two paginated     *)
(* listings.  The five TTLCache objects are modelled as sequences of       *)
(* entries in least-recently-used order, each with its remaining lifetime. *)
(***************************************************************************)
EXTENDS Integers, Sequences, FiniteSets, TLC

VARIABLES
    parents_by_child,    \* remote: child id -> the Parents list list_parents returns
    get_parent_cache,    \* self._get_parent_cache
    call,                \* the last membership operation: arguments, outcome and trace
    queried,             \* child ids list_parents has been called for so far
    dropped,             \* whether a parent-cache entry has expired or been evicted so far
    fetched,             \* child id -> what list_parents last answered for it, and how
                         \* long ago (cache_ttl: not within the TTL, or never)
    roots,                      \* remote: the Roots list list_roots returns
    ou_details_by_id,           \* remote: OU id -> describe_organizational_unit response
    accounts_pages_by_parent,   \* remote: parent id -> pages of list_accounts_for_parent
    ous_pages_by_parent,        \* remote: parent id -> pages of list_organizational_units_for_parent
    get_org_root_cache,                   \* self._get_org_root_cache
    describe_organizational_unit_cache,   \* self._describe_organizational_unit_cache
    list_accounts_cache,                  \* self._list_accounts_cache
    list_child_ous_cache,                 \* self._list_child_ous_cache
    hcall,               \* the last get_ou_hierarchy call: arguments, outcome and trace
    hprev,               \* the call before it, when it had the same arguments
    roots_asked,         \* whether list_roots has been called since time last passed
                         \* with no root id cached
    fcall,               \* the get_accounts call made since the last get_ou_hierarchy call
    client,              \* the client handle the constructors are given
    ccall,               \* the last constructor call: its class and outcome
    threads,             \* caller -> where its _get_parent call stands, its locals
                         \* and its outcome
    currsize_drift,      \* how far the size counter of self._get_parent_cache
                         \* (TTLCache.currsize) exceeds the number of stored entries
    later,               \* the lookup of another key made after the callers finished
    frames,              \* the activations of _build_ou_hierarchy, outermost first
    built,               \* the ids a node was started for in the running construction
    bcall,               \* the construction under way or last finished
    heap                 \* the list objects that results and the accounts cache
                         \* share: reference -> contents

membership_vars == <<get_parent_cache, call, queried, dropped, fetched>>

remote_vars ==
    <<parents_by_child, roots, ou_details_by_id, accounts_pages_by_parent,
      ous_pages_by_parent>>

hierarchy_vars ==
    <<get_org_root_cache, describe_organizational_unit_cache, list_accounts_cache,
      list_child_ous_cache, hcall, hprev, roots_asked, fcall>>

construct_vars == <<client, ccall>>

thread_vars == <<threads, currsize_drift, later>>

frame_vars == <<frames, built, bcall>>

vars ==
    <<remote_vars, membership_vars, hierarchy_vars, construct_vars, thread_vars,
      frame_vars, heap>>

----------------------------------------------------------------------------
(* Identifiers.                                                            *)

\* Python's None, as returned by dict.get("Id", None).
None == "<None>"

AccountId == "111111111111"
RootId == "r-root"
OuIds == <<"ou-1", "ou-2", "ou-3", "ou-4", "ou-5", "ou-6", "ou-7">>
\* An identifier that is in no directory.
Nope == "nope"

\* The deepest OU nesting of the directories explored.
MaxDepth == 5

\* str.startswith("r-") on the identifiers of the model.
StartsWithRootPrefix(id) == id \in {RootId}

\* A truthiness under which only None is falsy.
IsFalsy_only_none(parent_id) == parent_id = None

\* Python truthiness of a parent id: None and the empty string are falsy.
IsFalsy(parent_id) == parent_id = None \/ parent_id = ""

----------------------------------------------------------------------------
(* The remote directory as list_parents sees it.                           *)

\* A chain of depth d: account -> ou-d -> ... -> ou-1 -> root.
ChainNodes(d) == {AccountId, RootId} \cup {OuIds[k] : k \in 1..d}

\* Position 0 is the account, position p >= 1 is the OU p hops above it.
ChainAt(d, p) == IF p = 0 THEN AccountId
                 ELSE IF p > d THEN RootId
                 ELSE OuIds[d + 1 - p]

ParentRecord(id) ==
    [Id |-> id,
     Type |-> IF StartsWithRootPrefix(id) THEN "ROOT" ELSE "ORGANIZATIONAL_UNIT"]

FaultKinds == {"zero", "two", "noid", "emptyid"}

\* The Parents list of the node at position p, under a fault of the given kind.
FaultyParents(d, p, kind) ==
    CASE kind = "zero" -> <<>>
      [] kind = "two" -> <<ParentRecord(ChainAt(d, p + 1)), ParentRecord(Nope)>>
      [] kind = "noid" -> <<[Type |-> "ORGANIZATIONAL_UNIT"]>>
      [] kind = "emptyid" -> <<[Id |-> "", Type |-> "ORGANIZATIONAL_UNIT"]>>

\* A well-formed chain: every non-root node has exactly one parent record,
\* the root has none.
ChainDirectory(d) ==
    [id \in ChainNodes(d) |->
        IF StartsWithRootPrefix(id) THEN <<>>
        ELSE LET p == CHOOSE q \in 0..d : ChainAt(d, q) = id
             IN <<ParentRecord(ChainAt(d, p + 1))>>]

\* The same chain with the answer for the node at position p replaced.
FaultyDirectory(d, p, kind) ==
    [ChainDirectory(d) EXCEPT ![ChainAt(d, p)] = FaultyParents(d, p, kind)]

\* The deepest chain a fault is injected into.
MaxFaultDepth == 1

\* The directories the cache behaviour is explored on: shallow chains, sound
\* and faulty.
Directories ==
    {ChainDirectory(d) : d \in 0..MaxFaultDepth}
    \cup {FaultyDirectory(d, p, kind) :
            d \in 0..MaxFaultDepth, p \in 0..MaxFaultDepth, kind \in FaultKinds}

\* The directories the walk is explored on: sound chains of every depth.
DeepDirectories == {ChainDirectory(d) : d \in 0..MaxDepth}

\* FakeOrganizationsClient.list_parents / the remote list_parents operation.
list_parents(ChildId) == parents_by_child[ChildId]

----------------------------------------------------------------------------
(* The remote directory as the listings see it: a tree of OUs with         *)
(* accounts attached.                                                       *)

OuNames == <<"OU-1", "OU-2", "OU-3", "OU-4", "OU-5", "OU-6", "OU-7">>

\* The number of OUs of the trees explored.
MaxOus == 3

\* Node 0 is the root, node k >= 1 is the OU ou-k.
NodeId(k) == IF k = 0 THEN RootId ELSE OuIds[k]
OuRecord(k) == [Id |-> OuIds[k], Name |-> OuNames[k]]
Account(n) == [Id |-> n]

\* A tree gives every OU its parent node, of smaller index.  ExampleShape is
\* the tree of the test suite and of the specification's example:
\* root{A1} -> ou-1{A2} -> ou-3{A3}, with ou-2{} a sibling of ou-1.
ExampleShape == [k \in 1..MaxOus |-> IF k = 3 THEN 1 ELSE 0]
\* root -> ou-1 -> ou-2 -> ...
ChainShape == [k \in 1..MaxOus |-> k - 1]
\* Every OU directly under the root.
StarShape == [k \in 1..MaxOus |-> 0]

TreeShapes == {ExampleShape, ChainShape, StarShape}

Reverse(seq) == [i \in 1..Len(seq) |-> seq[Len(seq) + 1 - i]]

\* The child OUs of node j, by ascending index.
ChildrenOf(par, j) ==
    SelectSeq([k \in 1..MaxOus |-> k], LAMBDA k : par[k] = j)

\* The pages of list_organizational_units_for_parent for node j: one page in
\* ascending order, or one OU per page in descending order.
OuPages(par, j, order) ==
    IF order = "ascending"
    THEN <<[OrganizationalUnits |->
              [i \in 1..Len(ChildrenOf(par, j)) |-> OuRecord(ChildrenOf(par, j)[i])]]>>
    ELSE [i \in 1..Len(ChildrenOf(par, j)) |->
              [OrganizationalUnits |-> <<OuRecord(Reverse(ChildrenOf(par, j))[i])>>]]

\* The pages of list_accounts_for_parent for node j.  "spread" is the layout
\* root{A1}, ou-1{A2}, ou-3{A3}; "paged" puts A2 then A1 on two pages of ou-1
\* and A3, A4 on one page of the last OU.
AccountPages(j, layout) ==
    IF layout = "spread"
    THEN CASE j = 0 -> <<[Accounts |-> <<Account("A1")>>]>>
           [] j = 1 -> <<[Accounts |-> <<Account("A2")>>]>>
           [] j = 3 -> <<[Accounts |-> <<Account("A3")>>]>>
           [] OTHER -> <<[Accounts |-> <<>>]>>
    ELSE CASE j = 1 -> <<[Accounts |-> <<Account("A2")>>], [Accounts |-> <<Account("A1")>>]>>
           [] j = MaxOus -> <<[Accounts |-> <<Account("A3"), Account("A4")>>]>>
           [] OTHER -> <<[Accounts |-> <<>>]>>

TreeAccountsPages(layout) == [id \in {NodeId(j) : j \in 0..MaxOus} |->
    AccountPages(CHOOSE j \in 0..MaxOus : NodeId(j) = id, layout)]

TreeOusPages(par, order) == [id \in {NodeId(j) : j \in 0..MaxOus} |->
    OuPages(par, CHOOSE j \in 0..MaxOus : NodeId(j) = id, order)]

\* list_parents on the same tree, for the OUs and the root.
TreeParents(par) == [id \in {NodeId(j) : j \in 0..MaxOus} |->
    IF StartsWithRootPrefix(id) THEN <<>>
    ELSE <<ParentRecord(NodeId(par[CHOOSE j \in 1..MaxOus : NodeId(j) = id]))>>]

\* describe_organizational_unit for every OU of the tree.
TreeOuDetails == [id \in {OuIds[k] : k \in 1..MaxOus} |->
    [OrganizationalUnit |-> OuRecord(CHOOSE k \in 1..MaxOus : OuIds[k] = id)]]

\* FakeOrganizationsClient.list_roots, describe_organizational_unit and the
\* two paginators.
list_roots == roots
describe_organizational_unit(OrganizationalUnitId) ==
    ou_details_by_id[OrganizationalUnitId]
list_accounts_for_parent(ParentId) == accounts_pages_by_parent[ParentId]
list_organizational_units_for_parent(ParentId) == ous_pages_by_parent[ParentId]

----------------------------------------------------------------------------
(* cachetools.TTLCache as the View uses it.                                *)

\* AwsOrgView(cache_ttl=..., cache_maxsize=...): small values of the two
\* constructor arguments.
cache_ttl == 1
cache_maxsize == 2

CacheKeys(cache) == {cache[i].key : i \in DOMAIN cache}

\* The keys `in` answers True for: present and not yet expired.
LiveKeys(cache) == {cache[i].key : i \in {j \in DOMAIN cache : cache[j].ttl_left > 0}}

\* key in cache
CacheContains(cache, key) == key \in LiveKeys(cache)

CacheIndex(cache, key) == CHOOSE i \in DOMAIN cache : cache[i].key = key

\* A lookup that answers with the oldest entry's value, whatever the key.
CacheValue_oldest_entry(cache, key) == cache[1].value

\* The value cache[key] returns.
CacheValue(cache, key) == cache[CacheIndex(cache, key)].value

RemoveKey(cache, key) == SelectSeq(cache, LAMBDA e : e.key # key)

\* cache[key] also marks the entry most recently used.
CacheTouch(cache, key) ==
    Append(RemoveKey(cache, key), cache[CacheIndex(cache, key)])

\* TTLCache.expire(): expired entries are removed.
CacheExpire(cache) == SelectSeq(cache, LAMBDA e : e.ttl_left > 0)

\* cache[key] = value: expire, make room by evicting the least recently used
\* entry, then store the entry with a fresh lifetime as most recently used.
CacheSet(cache, key, value) ==
    LET live == CacheExpire(cache)
        room == IF key \in CacheKeys(live) THEN RemoveKey(live, key)
                ELSE IF Len(live) >= cache_maxsize THEN Tail(live)
                ELSE live
    IN Append(room, [key |-> key, value |-> value, ttl_left |-> cache_ttl])

\* A timer that never advances: no entry ever comes closer to its expiry.
CacheAge_never_ages(cache) == cache

\* One unit of time passes for every entry.
CacheAge(cache) ==
    [i \in DOMAIN cache |->
        [cache[i] EXCEPT !.ttl_left = IF @ > 0 THEN @ - 1 ELSE 0]]

----------------------------------------------------------------------------
(* AwsOrgView._get_parent                                                  *)

\* parents[0].get("Id", None)
RecordGetId(record) == IF "Id" \in DOMAIN record THEN record.Id ELSE None

\* A parent resolution that never consults the cache.
get_parent_ignores_cache(child_id, cache) ==
    LET parents == list_parents(child_id)
    IN IF Len(parents) # 1
       THEN [raised |-> TRUE, error |-> "ParentResolutionError",
             value |-> None, cache |-> cache,
             hit |-> FALSE, remote |-> TRUE, evicted |-> FALSE]
       ELSE LET parent_id == RecordGetId(parents[1])
                stored == CacheSet(cache, child_id, parent_id)
            IN [raised |-> FALSE, error |-> None,
                value |-> parent_id, cache |-> stored,
                hit |-> FALSE, remote |-> TRUE,
                evicted |-> ~(LiveKeys(cache) \subseteq LiveKeys(stored))]

\* A parent resolution that writes the cache entry before it validates the
\* number of parent records.
get_parent_caches_before_check(child_id, cache) ==
    IF CacheContains(cache, child_id)
    THEN [raised |-> FALSE, error |-> None,
          value |-> CacheValue(cache, child_id),
          cache |-> CacheTouch(cache, child_id),
          hit |-> TRUE, remote |-> FALSE, evicted |-> FALSE]
    ELSE LET parents == list_parents(child_id)
             parent_id == IF Len(parents) >= 1 THEN RecordGetId(parents[1]) ELSE None
             stored == CacheSet(cache, child_id, parent_id)
         IN [raised |-> Len(parents) # 1,
             error |-> IF Len(parents) # 1 THEN "ParentResolutionError" ELSE None,
             value |-> IF Len(parents) # 1 THEN None ELSE parent_id,
             cache |-> stored,
             hit |-> FALSE, remote |-> TRUE,
             evicted |-> ~(LiveKeys(cache) \subseteq LiveKeys(stored))]

\* A parent resolution that reads parents[0]["Id"] and so fails on a record
\* without the field.
get_parent_requires_id(child_id, cache) ==
    IF CacheContains(cache, child_id)
    THEN [raised |-> FALSE, error |-> None,
          value |-> CacheValue(cache, child_id),
          cache |-> CacheTouch(cache, child_id),
          hit |-> TRUE, remote |-> FALSE, evicted |-> FALSE]
    ELSE LET parents == list_parents(child_id)
         IN IF Len(parents) # 1
            THEN [raised |-> TRUE, error |-> "ParentResolutionError",
                  value |-> None, cache |-> cache,
                  hit |-> FALSE, remote |-> TRUE, evicted |-> FALSE]
            ELSE IF "Id" \notin DOMAIN parents[1]
            THEN [raised |-> TRUE, error |-> "KeyError",
                  value |-> None, cache |-> cache,
                  hit |-> FALSE, remote |-> TRUE, evicted |-> FALSE]
            ELSE LET parent_id == RecordGetId(parents[1])
                     stored == CacheSet(cache, child_id, parent_id)
                 IN [raised |-> FALSE, error |-> None,
                     value |-> parent_id, cache |-> stored,
                     hit |-> FALSE, remote |-> TRUE,
                     evicted |-> ~(LiveKeys(cache) \subseteq LiveKeys(stored))]

\* The result carries the return value or the raised error, the cache after
\* the call and what the call did.
get_parent(child_id, cache) ==
    IF CacheContains(cache, child_id)
    THEN [raised |-> FALSE, error |-> None,
          value |-> CacheValue(cache, child_id),
          cache |-> CacheTouch(cache, child_id),
          hit |-> TRUE, remote |-> FALSE, evicted |-> FALSE]
    ELSE LET parents == list_parents(child_id)
         IN IF Len(parents) # 1
            THEN [raised |-> TRUE, error |-> "ParentResolutionError",
                  value |-> None, cache |-> cache,
                  hit |-> FALSE, remote |-> TRUE, evicted |-> FALSE]
            ELSE LET parent_id == RecordGetId(parents[1])
                     stored == CacheSet(cache, child_id, parent_id)
                 IN [raised |-> FALSE, error |-> None,
                     value |-> parent_id, cache |-> stored,
                     hit |-> FALSE, remote |-> TRUE,
                     evicted |-> ~(LiveKeys(cache) \subseteq LiveKeys(stored))]

\* What one _get_parent call leaves in the trace of the operation.
Lookup(child_id, g) ==
    [child_id |-> child_id, hit |-> g.hit, remote |-> g.remote,
     raised |-> g.raised, value |-> g.value]

----------------------------------------------------------------------------
(* AwsOrgView.account_in_haystack                                          *)

\* range(6)
RangeHops == 6

\* set(haystack) for a list argument
ToSet(haystack) == {haystack[i] : i \in DOMAIN haystack}

\* A walk that forgets to test the starting node.
TestNode_skips_start(i, current_id, haystack) == i > 0 /\ current_id \in haystack

\* `current_id in haystack`, the test at the head of iteration i.
TestNode(i, current_id, haystack) == current_id \in haystack

\* A direct-descendant stop that comes one hop late.
DirectDescendantStop_one_hop_late(i, require_direct_descendant) ==
    require_direct_descendant /\ i = 2

\* `require_direct_descendant and i == 1`
DirectDescendantStop(i, require_direct_descendant) ==
    require_direct_descendant /\ i = 1

Finished(outcome, value, st) ==
    [outcome |-> outcome, value |-> value, error |-> st.error, cache |-> st.cache,
     tested |-> st.tested, lookups |-> st.lookups, evicted |-> st.evicted]

\* The loop from iteration i on; st carries the cache and the trace so far.
RECURSIVE Walk(_, _, _, _, _)
Walk(i, current_id, haystack, require_direct_descendant, st) ==
    IF i >= RangeHops THEN Finished("return", FALSE, st)
    ELSE
    LET tested == [st EXCEPT !.tested = Append(@, current_id)]
    IN IF TestNode(i, current_id, haystack) THEN Finished("return", TRUE, tested)
       ELSE IF DirectDescendantStop(i, require_direct_descendant)
            THEN Finished("return", FALSE, tested)
       ELSE IF StartsWithRootPrefix(current_id)
            THEN Finished("return", FALSE, tested)
       ELSE
       LET g == get_parent(current_id, tested.cache)
           looked == [tested EXCEPT !.cache = g.cache,
                                    !.lookups = Append(@, Lookup(current_id, g)),
                                    !.evicted = @ \/ g.evicted,
                                    !.error = g.error]
       IN IF g.raised THEN Finished("raise", FALSE, looked)
          ELSE IF IsFalsy(g.value) THEN Finished("return", FALSE, looked)
          ELSE Walk(i + 1, g.value, haystack, require_direct_descendant, looked)

account_in_haystack(account_id, haystack, require_direct_descendant, cache) ==
    Walk(0, account_id, ToSet(haystack), require_direct_descendant,
         [cache |-> cache, tested |-> <<>>, lookups |-> <<>>, evicted |-> FALSE,
          error |-> None])

----------------------------------------------------------------------------
(* AwsOrgView.get_ou_hierarchy and its helpers.  A Python dict is a        *)
(* sequence of [key, value] entries in insertion order.                    *)

DictKeys(d) == {d[i].key : i \in DOMAIN d}
DictSet(d, key, value) ==
    IF key \in DictKeys(d)
    THEN [i \in DOMAIN d |-> IF d[i].key = key THEN [key |-> key, value |-> value] ELSE d[i]]
    ELSE Append(d, [key |-> key, value |-> value])

\* A page the paginator fails to fetch is the record [Error |-> e]: the
\* iteration raises e when it comes to that page.
PageFails(page) == "Error" \in DOMAIN page

\* accounts.extend(page["Accounts"]) over the pages, in page order, until a
\* page fails.
RECURSIVE ExtendAccounts(_, _)
ExtendAccounts(accounts, pages) ==
    IF pages = <<>> THEN [raised |-> FALSE, error |-> None, value |-> accounts]
    ELSE IF PageFails(Head(pages))
    THEN [raised |-> TRUE, error |-> Head(pages).Error, value |-> accounts]
    ELSE ExtendAccounts(accounts \o Head(pages).Accounts, Tail(pages))

\* ous.extend(page["OrganizationalUnits"]) over the pages, in page order,
\* until a page fails.
RECURSIVE ExtendOus(_, _)
ExtendOus(ous, pages) ==
    IF pages = <<>> THEN [raised |-> FALSE, error |-> None, value |-> ous]
    ELSE IF PageFails(Head(pages))
    THEN [raised |-> TRUE, error |-> Head(pages).Error, value |-> ous]
    ELSE ExtendOus(ous \o Head(pages).OrganizationalUnits, Tail(pages))

\* A _list_accounts that never consults its cache.
list_accounts_uncached(parent_id, st) ==
    LET x == ExtendAccounts(<<>>, list_accounts_for_parent(parent_id))
        stored == CacheSet(st.list_accounts_cache, parent_id, x.value)
    IN IF x.raised
       THEN [raised |-> TRUE, error |-> x.error, value |-> <<>>,
             st |-> [st EXCEPT !.accounts_listed = Append(@, parent_id)]]
       ELSE [raised |-> FALSE, error |-> None, value |-> x.value,
             st |-> [st EXCEPT
                 !.list_accounts_cache = stored,
                 !.accounts_listed = Append(@, parent_id),
                 !.evicted = @ \/ ~(LiveKeys(st.list_accounts_cache) \subseteq LiveKeys(stored))]]

\* A _list_accounts that writes the cache entry after every page.
list_accounts_caches_each_page(parent_id, st) ==
    IF CacheContains(st.list_accounts_cache, parent_id)
    THEN [raised |-> FALSE, error |-> None,
          value |-> CacheValue(st.list_accounts_cache, parent_id),
          st |-> [st EXCEPT !.list_accounts_cache = CacheTouch(@, parent_id)]]
    ELSE LET x == ExtendAccounts(<<>>, list_accounts_for_parent(parent_id))
             stored == CacheSet(st.list_accounts_cache, parent_id, x.value)
         IN [raised |-> x.raised, error |-> x.error,
             value |-> IF x.raised THEN <<>> ELSE x.value,
             st |-> [st EXCEPT
                 !.list_accounts_cache = stored,
                 !.accounts_listed = Append(@, parent_id),
                 !.evicted = @ \/ ~(LiveKeys(st.list_accounts_cache) \subseteq LiveKeys(stored))]]

\* AwsOrgView._list_accounts; st carries the caches and the trace of remote
\* listings.  A failing page ends the call before the cache is written.
list_accounts(parent_id, st) ==
    IF CacheContains(st.list_accounts_cache, parent_id)
    THEN [raised |-> FALSE, error |-> None,
          value |-> CacheValue(st.list_accounts_cache, parent_id),
          st |-> [st EXCEPT !.list_accounts_cache = CacheTouch(@, parent_id)]]
    ELSE LET x == ExtendAccounts(<<>>, list_accounts_for_parent(parent_id))
             stored == CacheSet(st.list_accounts_cache, parent_id, x.value)
         IN IF x.raised
            THEN [raised |-> TRUE, error |-> x.error, value |-> <<>>,
                  st |-> [st EXCEPT !.accounts_listed = Append(@, parent_id)]]
            ELSE [raised |-> FALSE, error |-> None, value |-> x.value,
                  st |-> [st EXCEPT
                      !.list_accounts_cache = stored,
                      !.accounts_listed = Append(@, parent_id),
                      !.evicted = @ \/ ~(LiveKeys(st.list_accounts_cache) \subseteq LiveKeys(stored))]]

\* AwsOrgView._list_child_ous
list_child_ous(parent_id, st) ==
    IF CacheContains(st.list_child_ous_cache, parent_id)
    THEN [raised |-> FALSE, error |-> None,
          value |-> CacheValue(st.list_child_ous_cache, parent_id),
          st |-> [st EXCEPT !.list_child_ous_cache = CacheTouch(@, parent_id)]]
    ELSE LET x == ExtendOus(<<>>, list_organizational_units_for_parent(parent_id))
             stored == CacheSet(st.list_child_ous_cache, parent_id, x.value)
         IN IF x.raised
            THEN [raised |-> TRUE, error |-> x.error, value |-> <<>>,
                  st |-> [st EXCEPT !.ous_listed = Append(@, parent_id)]]
            ELSE [raised |-> FALSE, error |-> None, value |-> x.value,
                  st |-> [st EXCEPT
                      !.list_child_ous_cache = stored,
                      !.ous_listed = Append(@, parent_id),
                      !.evicted = @ \/ ~(LiveKeys(st.list_child_ous_cache) \subseteq LiveKeys(stored))]]

\* A stub that carries empty accounts and org_units keys.
ShallowStub_with_empty_keys(ou) ==
    [name |-> ou.Name, accounts |-> <<>>, org_units |-> <<>>]

\* The stub of a child OU in shallow mode: {"name": ou["Name"]}.
ShallowStub(ou) == [name |-> ou.Name]

\* AwsOrgView._build_ou_hierarchy; BuildChildren is its loop over child_ous
\* from index k on.  An error raised by a listing ends the construction.
RECURSIVE build_ou_hierarchy(_, _, _, _), BuildChildren(_, _, _, _, _)
build_ou_hierarchy(parent_id, parent_name, direct_descendants_only, st) ==
    LET a == list_accounts(parent_id, st)
        ou_tree == [name |-> parent_name, accounts |-> a.value, org_units |-> <<>>]
        o == list_child_ous(parent_id, a.st)
    IN IF a.raised
       THEN [raised |-> TRUE, error |-> a.error, value |-> <<>>, st |-> a.st]
       ELSE IF o.raised
       THEN [raised |-> TRUE, error |-> o.error, value |-> <<>>, st |-> o.st]
       ELSE BuildChildren(o.value, 1, direct_descendants_only, ou_tree, o.st)

BuildChildren(child_ous, k, direct_descendants_only, ou_tree, st) ==
    IF k > Len(child_ous)
    THEN [raised |-> FALSE, error |-> None, value |-> ou_tree, st |-> st]
    ELSE
    LET ou == child_ous[k]
    IN IF direct_descendants_only
       THEN BuildChildren(child_ous, k + 1, direct_descendants_only,
                [ou_tree EXCEPT !.org_units = DictSet(@, ou.Id, ShallowStub(ou))], st)
       ELSE LET sub == build_ou_hierarchy(ou.Id, ou.Name, FALSE, st)
            IN IF sub.raised THEN sub
               ELSE BuildChildren(child_ous, k + 1, direct_descendants_only,
                        [ou_tree EXCEPT !.org_units = DictSet(@, ou.Id, sub.value)], sub.st)

\* A _get_org_root that never consults its cache.
get_org_root_uncached(cache) ==
    IF Len(list_roots) # 1
    THEN [raised |-> TRUE, error |-> "RuntimeError", value |-> None,
          cache |-> cache, remote |-> TRUE]
    ELSE [raised |-> FALSE, error |-> None, value |-> list_roots[1].Id,
          cache |-> CacheSet(cache, "id", list_roots[1].Id), remote |-> TRUE]

\* AwsOrgView._get_org_root, on the singleton cache under the key "id".
get_org_root(cache) ==
    IF CacheContains(cache, "id")
    THEN [raised |-> FALSE, error |-> None, value |-> CacheValue(cache, "id"),
          cache |-> CacheTouch(cache, "id"), remote |-> FALSE]
    ELSE IF Len(list_roots) # 1
         THEN [raised |-> TRUE, error |-> "RuntimeError", value |-> None,
               cache |-> cache, remote |-> TRUE]
         ELSE [raised |-> FALSE, error |-> None, value |-> list_roots[1].Id,
               cache |-> CacheSet(cache, "id", list_roots[1].Id), remote |-> TRUE]

\* A _describe_organizational_unit that never consults its cache.
describe_ou_uncached(ou_id, cache) ==
    LET details == describe_organizational_unit(ou_id)
    IN [value |-> details, cache |-> CacheSet(cache, ou_id, details), remote |-> TRUE]

\* A _describe_organizational_unit that caches a response only when it
\* carries a non-empty name.
describe_ou_caches_named_only(ou_id, cache) ==
    IF CacheContains(cache, ou_id)
    THEN [value |-> CacheValue(cache, ou_id), cache |-> CacheTouch(cache, ou_id),
          remote |-> FALSE]
    ELSE LET details == describe_organizational_unit(ou_id)
             named == /\ "OrganizationalUnit" \in DOMAIN details
                      /\ "Name" \in DOMAIN details.OrganizationalUnit
                      /\ details.OrganizationalUnit.Name # ""
         IN [value |-> details,
             cache |-> IF named THEN CacheSet(cache, ou_id, details) ELSE cache,
             remote |-> TRUE]

\* AwsOrgView._describe_organizational_unit
describe_ou(ou_id, cache) ==
    IF CacheContains(cache, ou_id)
    THEN [value |-> CacheValue(cache, ou_id), cache |-> CacheTouch(cache, ou_id),
          remote |-> FALSE]
    ELSE LET details == describe_organizational_unit(ou_id)
         IN [value |-> details, cache |-> CacheSet(cache, ou_id, details),
             remote |-> TRUE]

\* details.get("OrganizationalUnit", {}).get("Name")
DetailsName(details) ==
    IF "OrganizationalUnit" \notin DOMAIN details THEN None
    ELSE IF "Name" \notin DOMAIN details.OrganizationalUnit THEN None
    ELSE details.OrganizationalUnit.Name

RootName == "Organization Root"

\* The four caches get_ou_hierarchy works on, with an empty trace.
HierarchyState ==
    [get_org_root_cache |-> get_org_root_cache,
     describe_organizational_unit_cache |-> describe_organizational_unit_cache,
     list_accounts_cache |-> list_accounts_cache,
     list_child_ous_cache |-> list_child_ous_cache,
     roots_listed |-> 0, described |-> <<>>,
     accounts_listed |-> <<>>, ous_listed |-> <<>>, evicted |-> FALSE]

\* The naming resolution at the head of get_ou_hierarchy: the resolved parent
\* id and name, or the error raised.
ResolveParent(parent_id, st) ==
    IF parent_id = None
    THEN LET r == get_org_root(st.get_org_root_cache)
         IN [raised |-> r.raised, error |-> r.error,
             parent_id |-> r.value, parent_name |-> RootName,
             st |-> [st EXCEPT !.get_org_root_cache = r.cache,
                               !.roots_listed = IF r.remote THEN 1 ELSE 0]]
    ELSE IF StartsWithRootPrefix(parent_id)
    THEN [raised |-> FALSE, error |-> None,
          parent_id |-> parent_id, parent_name |-> RootName, st |-> st]
    ELSE LET d == describe_ou(parent_id, st.describe_organizational_unit_cache)
             parent_name == DetailsName(d.value)
         IN [raised |-> IsFalsy(parent_name),
             error |-> IF IsFalsy(parent_name) THEN "ValueError" ELSE None,
             parent_id |-> parent_id, parent_name |-> parent_name,
             st |-> [st EXCEPT !.describe_organizational_unit_cache = d.cache,
                               !.described = IF d.remote THEN <<parent_id>> ELSE <<>>]]

\* AwsOrgView.get_ou_hierarchy: the result is the single-entry dict
\* {parent_id: node}.
get_ou_hierarchy(parent_id, direct_descendants_only, st) ==
    LET p == ResolveParent(parent_id, st)
    IN IF p.raised
       THEN [outcome |-> "raise", error |-> p.error, result |-> <<>>, st |-> p.st]
       ELSE LET b == build_ou_hierarchy(p.parent_id, p.parent_name,
                                        direct_descendants_only, p.st)
            IN IF b.raised
               THEN [outcome |-> "raise", error |-> b.error, result |-> <<>>, st |-> b.st]
               ELSE [outcome |-> "return", error |-> None,
                     result |-> DictSet(<<>>, p.parent_id, b.value), st |-> b.st]

\* A flatten that visits the child OUs before the node's own accounts.
RECURSIVE get_accounts_of_children_first(_), ExtendChildrenFirst(_, _)
get_accounts_of_children_first(unit) ==
    LET ou_children == IF "org_units" \in DOMAIN unit THEN unit.org_units ELSE <<>>
        accounts == IF "accounts" \in DOMAIN unit THEN unit.accounts ELSE <<>>
    IN ExtendChildrenFirst(<<>>, ou_children) \o accounts

ExtendChildrenFirst(accounts, ou_children) ==
    IF ou_children = <<>> THEN accounts
    ELSE ExtendChildrenFirst(
            accounts \o get_accounts_of_children_first(Head(ou_children).value),
            Tail(ou_children))

\* OUMembershipRetrieverResult._get_accounts; ExtendFromChildren is its loop
\* over ou_children.values().
RECURSIVE get_accounts_of(_), ExtendFromChildren(_, _)
get_accounts_of(unit) ==
    LET ou_children == IF "org_units" \in DOMAIN unit THEN unit.org_units ELSE <<>>
        accounts == IF "accounts" \in DOMAIN unit THEN unit.accounts ELSE <<>>
    IN ExtendFromChildren(accounts, ou_children)

ExtendFromChildren(accounts, ou_children) ==
    IF ou_children = <<>> THEN accounts
    ELSE ExtendFromChildren(accounts \o get_accounts_of(Head(ou_children).value),
                            Tail(ou_children))

\* A get_accounts that flattens the first entry whatever the number of
\* entries.
get_accounts_unchecked(result) ==
    IF result = <<>>
    THEN [raised |-> FALSE, error |-> None, value |-> <<>>]
    ELSE [raised |-> FALSE, error |-> None, value |-> get_accounts_of(result[1].value)]

\* OUMembershipRetrieverResult.get_accounts
get_accounts(result) ==
    IF Len(result) # 1
    THEN [raised |-> TRUE, error |-> "ValueError", value |-> <<>>]
    ELSE [raised |-> FALSE, error |-> None, value |-> get_accounts_of(result[1].value)]

----------------------------------------------------------------------------
(* The state machine of the membership operations.                         *)

Nodes == DOMAIN parents_by_child

\* Client handles: whether the object is a botocore BaseClient, the service
\* its meta.service_model names ("none" when it has no meta attribute),
\* whether it has a get_client method, and whether it is None.
Handle(base, service, provider, none) ==
    [base_client |-> base, service |-> service, provider |-> provider, none |-> none]
OrganizationsClient == Handle(TRUE, "organizations", FALSE, FALSE)
OtherServiceClient == Handle(TRUE, "s3", FALSE, FALSE)
ClientHandles ==
    {OrganizationsClient, OtherServiceClient,
     Handle(FALSE, "organizations", FALSE, FALSE),   \* a stand-in with an organizations meta
     Handle(FALSE, "s3", FALSE, FALSE),              \* a stand-in with another service's meta
     Handle(FALSE, "none", FALSE, FALSE),            \* any other object
     Handle(FALSE, "none", TRUE, FALSE),             \* an OrganizationsClientProvider
     Handle(FALSE, "none", FALSE, TRUE)}             \* None

\* DefaultOrganizationsClientProvider.__init__: the service is read only
\* when the handle is not a BaseClient.
DefaultOrganizationsClientProvider(c) ==
    IF c.base_client
    THEN [raised |-> FALSE, error |-> None]
    ELSE IF c.service = "none"
    THEN [raised |-> TRUE, error |-> "AttributeError"]
    ELSE IF c.service # "organizations"
    THEN [raised |-> TRUE, error |-> "TypeError"]
    ELSE [raised |-> FALSE, error |-> None]

\* AwsOrgView.__init__: the choice of the client provider.
AwsOrgView(c) ==
    IF c.none
    THEN DefaultOrganizationsClientProvider(OrganizationsClient)
    ELSE IF c.base_client
    THEN IF c.service # "organizations"
         THEN [raised |-> TRUE, error |-> "TypeError"]
         ELSE DefaultOrganizationsClientProvider(c)
    ELSE IF c.provider
    THEN [raised |-> FALSE, error |-> None]
    ELSE [raised |-> TRUE, error |-> "TypeError"]

\* The identifiers the explored calls start from, and those looked up directly.
StartIds == {AccountId, RootId}
LookupIds == {AccountId, RootId, OuIds[1]} \cap Nodes

HaystackInputs ==
    {<<>>} \cup {<<x>> : x \in Nodes}

NoCall == [op |-> "none"]

RemoteChildren(lookups) ==
    {lookups[i].child_id : i \in {j \in DOMAIN lookups : lookups[j].remote}}

\* No child has been asked about.
NeverFetched == [c \in DOMAIN parents_by_child |-> [age |-> cache_ttl, parent |-> None]]

\* The record of the answers after the lookups of a call, in order.
RECURSIVE Fetch(_, _)
Fetch(f, lookups) ==
    IF lookups = <<>> THEN f
    ELSE LET l == Head(lookups)
         IN Fetch(IF l.remote /\ ~l.raised /\ l.child_id \in DOMAIN f
                  THEN [f EXCEPT ![l.child_id] = [age |-> 0, parent |-> l.value]]
                  ELSE f,
                  Tail(lookups))

\* The callers that share the View, each on a thread of its own.
Callers == {"t1", "t2", "t3"}

\* A caller that has not called the View.
IdleThread ==
    [pc |-> "idle", child_id |-> None, parent_id |-> None, diffsize |-> 0,
     remote |-> FALSE, outcome |-> "none", value |-> None, error |-> None]

\* No caller has called, and the size counter of the parent cache agrees
\* with its entries.
NoThreads ==
    /\ threads = [t \in Callers |-> IdleThread]
    /\ currsize_drift = 0
    /\ later = NoCall

\* No construction of a hierarchy is under way.
NoFrames ==
    /\ frames = <<>>
    /\ built = <<>>
    /\ bcall = NoCall

\* AwsOrgView.__init__: the five caches are created empty.
EmptyCaches ==
    /\ get_parent_cache = <<>>
    /\ get_org_root_cache = <<>>
    /\ describe_organizational_unit_cache = <<>>
    /\ list_accounts_cache = <<>>
    /\ list_child_ous_cache = <<>>

\* A View built on a client of the organizations service, nothing called yet.
FreshView ==
    /\ client = OrganizationsClient
    /\ ccall = NoCall
    /\ EmptyCaches
    /\ call = NoCall
    /\ hcall = NoCall
    /\ hprev = NoCall
    /\ roots_asked = FALSE
    /\ fcall = NoCall
    /\ queried = {}
    /\ dropped = FALSE
    /\ fetched = NeverFetched
    /\ NoThreads
    /\ NoFrames
    /\ heap = <<>>

\* The listings of a directory that holds nothing but its root.
BareListings ==
    /\ roots = <<[Id |-> RootId]>>
    /\ ou_details_by_id = <<>>
    /\ accounts_pages_by_parent = [id \in {RootId} |-> <<[Accounts |-> <<>>]>>]
    /\ ous_pages_by_parent = [id \in {RootId} |-> <<[OrganizationalUnits |-> <<>>]>>]

Init ==
    /\ parents_by_child \in Directories
    /\ BareListings
    /\ FreshView

AccountInHaystack ==
    \E account_id \in StartIds, haystack \in HaystackInputs,
       require_direct_descendant \in BOOLEAN :
        LET r == account_in_haystack(account_id, haystack,
                                     require_direct_descendant, get_parent_cache)
        IN /\ get_parent_cache' = r.cache
           /\ call' = [op |-> "account_in_haystack",
                       account_id |-> account_id,
                       haystack |-> ToSet(haystack),
                       require_direct_descendant |-> require_direct_descendant,
                       outcome |-> r.outcome, value |-> r.value, error |-> r.error,
                       tested |-> r.tested, lookups |-> r.lookups,
                       requeried |-> RemoteChildren(r.lookups) \cap queried]
           /\ queried' = queried \cup RemoteChildren(r.lookups)
           /\ fetched' = Fetch(fetched, r.lookups)
           /\ dropped' = (dropped \/ r.evicted)
           /\ UNCHANGED <<remote_vars, hierarchy_vars, construct_vars, heap, frame_vars, thread_vars>>

GetParent ==
    \E child_id \in LookupIds :
        LET g == get_parent(child_id, get_parent_cache)
            lookups == <<Lookup(child_id, g)>>
        IN /\ get_parent_cache' = g.cache
           /\ call' = [op |-> "_get_parent",
                       child_id |-> child_id,
                       outcome |-> IF g.raised THEN "raise" ELSE "return",
                       value |-> g.value, error |-> g.error,
                       lookups |-> lookups,
                       requeried |-> RemoteChildren(lookups) \cap queried]
           /\ queried' = queried \cup RemoteChildren(lookups)
           /\ fetched' = Fetch(fetched, lookups)
           /\ dropped' = (dropped \/ g.evicted)
           /\ UNCHANGED <<remote_vars, hierarchy_vars, construct_vars, heap, frame_vars, thread_vars>>

\* Time passes: every cached entry is one unit closer to its expiry.
Tick ==
    /\ LiveKeys(get_parent_cache) # {}
    /\ get_parent_cache' = CacheExpire(CacheAge(get_parent_cache))
    /\ dropped' = (dropped \/ LiveKeys(get_parent_cache') # LiveKeys(get_parent_cache))
    /\ call' = NoCall
    /\ fetched' = [c \in DOMAIN fetched |->
                    [fetched[c] EXCEPT !.age = IF @ < cache_ttl THEN @ + 1 ELSE @]]
    /\ UNCHANGED <<remote_vars, hierarchy_vars, construct_vars, heap, frame_vars, thread_vars, queried>>

Next == AccountInHaystack \/ GetParent \/ Tick

Spec == Init /\ [][Next]_vars

\* The parent of the account changes upstream: the account moves between
\* its OU and the root.
Reparent ==
    /\ AccountId \in Nodes
    /\ \E new \in {RootId, OuIds[1]} :
        /\ parents_by_child[AccountId] # <<ParentRecord(new)>>
        /\ parents_by_child' = [parents_by_child EXCEPT ![AccountId] = <<ParentRecord(new)>>]
    /\ call' = NoCall
    /\ UNCHANGED <<roots, ou_details_by_id, accounts_pages_by_parent, ous_pages_by_parent,
                   get_parent_cache, queried, dropped, fetched, hierarchy_vars,
                   construct_vars, heap, frame_vars, thread_vars>>

\* The membership operations on a directory that changes.
InitStale ==
    /\ parents_by_child = ChainDirectory(1)
    /\ BareListings
    /\ FreshView

NextStale == AccountInHaystack \/ GetParent \/ Tick \/ Reparent

SpecStale == InitStale /\ [][NextStale]_vars

\* The walk on deep chains.
InitWalk ==
    /\ parents_by_child \in DeepDirectories
    /\ BareListings
    /\ FreshView

NextWalk == AccountInHaystack \/ GetParent

SpecWalk == InitWalk /\ [][NextWalk]_vars

----------------------------------------------------------------------------
(* The state machine of the hierarchy operations.                          *)

\* How the remote API orders and pages what it lists.
Listings == {<<"ascending", "spread">>, <<"descending", "paged">>}

InitHierarchy ==
    /\ \E par \in TreeShapes, listing \in Listings :
        /\ parents_by_child = TreeParents(par)
        /\ ous_pages_by_parent = TreeOusPages(par, listing[1])
        /\ accounts_pages_by_parent = TreeAccountsPages(listing[2])
    /\ roots = <<[Id |-> RootId]>>
    /\ ou_details_by_id = TreeOuDetails
    /\ FreshView

\* Directories on which the naming resolution can fail: the example tree
\* with no root or two roots listed, or with a describe response for ou-1
\* that has no OrganizationalUnit, no Name, or an empty Name.
RootsLists ==
    [one |-> <<[Id |-> RootId]>>,
     zero |-> <<>>,
     two |-> <<[Id |-> RootId], [Id |-> "r-other"]>>]
DetailsKinds == {"named", "nounit", "noname", "emptyname"}
DescribeResponse(kind, k) ==
    CASE kind = "named" -> [OrganizationalUnit |-> OuRecord(k)]
      [] kind = "nounit" -> [ResponseMetadata |-> <<>>]
      [] kind = "noname" -> [OrganizationalUnit |-> [Id |-> OuIds[k]]]
      [] kind = "emptyname" -> [OrganizationalUnit |-> [Id |-> OuIds[k], Name |-> ""]]
NamingScenarios ==
    {<<"one", kind>> : kind \in DetailsKinds} \cup {<<"zero", "named">>, <<"two", "named">>}

InitNaming ==
    /\ parents_by_child = TreeParents(ExampleShape)
    /\ ous_pages_by_parent = TreeOusPages(ExampleShape, "ascending")
    /\ accounts_pages_by_parent = TreeAccountsPages("spread")
    /\ \E sc \in NamingScenarios :
        /\ roots = RootsLists[sc[1]]
        /\ ou_details_by_id = [TreeOuDetails EXCEPT ![OuIds[1]] = DescribeResponse(sc[2], 1)]
    /\ FreshView

\* The parents the explored calls ask for; None is the omitted argument.
HierarchyParents == {None, RootId, OuIds[1]}

HierarchyCaches ==
    <<get_org_root_cache, describe_organizational_unit_cache, list_accounts_cache,
      list_child_ous_cache>>

GetOuHierarchy ==
    \E parent_id \in HierarchyParents, direct_descendants_only \in BOOLEAN :
        LET r == get_ou_hierarchy(parent_id, direct_descendants_only, HierarchyState)
        IN /\ get_org_root_cache' = r.st.get_org_root_cache
           /\ describe_organizational_unit_cache' = r.st.describe_organizational_unit_cache
           /\ list_accounts_cache' = r.st.list_accounts_cache
           /\ list_child_ous_cache' = r.st.list_child_ous_cache
           /\ hcall' = [op |-> "get_ou_hierarchy",
                        parent_id |-> parent_id,
                        direct_descendants_only |-> direct_descendants_only,
                        outcome |-> r.outcome, error |-> r.error, result |-> r.result,
                        roots_listed |-> r.st.roots_listed,
                        described |-> r.st.described,
                        accounts_listed |-> r.st.accounts_listed,
                        ous_listed |-> r.st.ous_listed,
                        evicted |-> r.st.evicted,
                        fresh |-> \A i \in 1..4 : HierarchyCaches[i] = <<>>,
                        roots_asked |-> roots_asked,
                        stale |-> FALSE]
           /\ roots_asked' = (roots_asked \/ r.st.roots_listed > 0)
           /\ fcall' = NoCall
           /\ hprev' = IF /\ hcall.op # "none"
                          /\ hcall.parent_id = parent_id
                          /\ hcall.direct_descendants_only = direct_descendants_only
                       THEN hcall ELSE NoCall
           /\ UNCHANGED <<remote_vars, membership_vars, construct_vars, heap, frame_vars, thread_vars>>

\* Time passes for the four caches of the hierarchy; a call after which a
\* cached entry has expired is marked stale.
HierarchyTick ==
    /\ roots_asked \/ \E i \in 1..4 : LiveKeys(HierarchyCaches[i]) # {}
    /\ get_org_root_cache' = CacheExpire(CacheAge(get_org_root_cache))
    /\ describe_organizational_unit_cache' =
            CacheExpire(CacheAge(describe_organizational_unit_cache))
    /\ list_accounts_cache' = CacheExpire(CacheAge(list_accounts_cache))
    /\ list_child_ous_cache' = CacheExpire(CacheAge(list_child_ous_cache))
    /\ hcall' = IF hcall.op = "none" THEN hcall
                ELSE [hcall EXCEPT !.stale =
                        @ \/ \E i \in 1..4 :
                                LiveKeys(HierarchyCaches[i]') # LiveKeys(HierarchyCaches[i])]
    /\ roots_asked' = CacheContains(get_org_root_cache', "id")
    /\ UNCHANGED <<remote_vars, membership_vars, construct_vars, heap, frame_vars, thread_vars, hprev, fcall>>

NextHierarchy == GetOuHierarchy \/ HierarchyTick

SpecHierarchy == InitHierarchy /\ [][NextHierarchy]_vars

\* OUMembershipRetrieverResult(...): the mappings get_accounts is applied to
\* are the result of the last get_ou_hierarchy call, that result with a
\* second top-level entry, and the empty mapping.
ExtraEntry ==
    [key |-> Nope,
     value |-> [name |-> "Extra", accounts |-> <<Account("A9")>>, org_units |-> <<>>]]
ResultMappings ==
    {<<>>} \cup
    (IF hcall.op = "get_ou_hierarchy" /\ hcall.outcome = "return"
     THEN {hcall.result, Append(hcall.result, ExtraEntry)}
     ELSE {})

GetAccounts ==
    \E result \in ResultMappings :
        LET f == get_accounts(result)
        IN /\ fcall' = [op |-> "get_accounts",
                        result |-> result,
                        outcome |-> IF f.raised THEN "raise" ELSE "return",
                        error |-> f.error, value |-> f.value]
           /\ UNCHANGED <<remote_vars, membership_vars, construct_vars, heap, frame_vars, thread_vars, get_org_root_cache,
                          describe_organizational_unit_cache, list_accounts_cache,
                          list_child_ous_cache, hcall, hprev, roots_asked>>

\* get_ou_hierarchy followed by get_accounts, on the example tree and the
\* chain.
InitFlatten ==
    /\ \E par \in {ExampleShape, ChainShape} :
        /\ parents_by_child = TreeParents(par)
        /\ ous_pages_by_parent = TreeOusPages(par, "ascending")
        /\ accounts_pages_by_parent = TreeAccountsPages("spread")
    /\ roots = <<[Id |-> RootId]>>
    /\ ou_details_by_id = TreeOuDetails
    /\ FreshView

NextFlatten == GetOuHierarchy \/ GetAccounts

SpecFlatten == InitFlatten /\ [][NextFlatten]_vars

\* Listings in which the paginator fails: pages with a failing page put
\* before page k.
RemoteError == "ClientError"
FailAt(pages, k) ==
    SubSeq(pages, 1, k - 1) \o <<[Error |-> RemoteError]>> \o SubSeq(pages, k, Len(pages))

\* The example tree listed over several pages, where the accounts of ou-1
\* may fail after their first page, and the child OUs of the root after
\* their first page or those of ou-1 on their first page.
InitPaging ==
    /\ parents_by_child = TreeParents(ExampleShape)
    /\ \/ /\ accounts_pages_by_parent \in
                {TreeAccountsPages("paged"),
                 [TreeAccountsPages("paged") EXCEPT ![OuIds[1]] = FailAt(@, 2)]}
          /\ ous_pages_by_parent = TreeOusPages(ExampleShape, "descending")
       \/ /\ accounts_pages_by_parent = TreeAccountsPages("paged")
          /\ ous_pages_by_parent \in
                {[TreeOusPages(ExampleShape, "descending") EXCEPT ![RootId] = FailAt(@, 2)],
                 [TreeOusPages(ExampleShape, "descending") EXCEPT ![OuIds[1]] = FailAt(@, 1)]}
    /\ roots = <<[Id |-> RootId]>>
    /\ ou_details_by_id = TreeOuDetails
    /\ FreshView

\* The pages that can be fetched, and whether some page cannot.
GoodPages(pages) == SelectSeq(pages, LAMBDA page : ~PageFails(page))
SomePageFails(pages) == \E i \in DOMAIN pages : PageFails(pages[i])

\* The remote API recovers: every page can be fetched again.
Recover ==
    /\ \E id \in DOMAIN accounts_pages_by_parent :
            \/ SomePageFails(accounts_pages_by_parent[id])
            \/ SomePageFails(ous_pages_by_parent[id])
    /\ accounts_pages_by_parent' =
            [id \in DOMAIN accounts_pages_by_parent |-> GoodPages(accounts_pages_by_parent[id])]
    /\ ous_pages_by_parent' =
            [id \in DOMAIN ous_pages_by_parent |-> GoodPages(ous_pages_by_parent[id])]
    /\ hcall' = NoCall
    /\ hprev' = NoCall
    /\ UNCHANGED <<parents_by_child, roots, ou_details_by_id, membership_vars,
                   construct_vars, heap, frame_vars, thread_vars, get_org_root_cache, describe_organizational_unit_cache,
                   list_accounts_cache, list_child_ous_cache, roots_asked, fcall>>

NextPaging == GetOuHierarchy \/ Recover

SpecPaging == InitPaging /\ [][NextPaging]_vars

\* DefaultOrganizationsClientProvider(client): no View is touched.
NewProvider ==
    LET p == DefaultOrganizationsClientProvider(client)
    IN /\ ccall' = [op |-> "DefaultOrganizationsClientProvider",
                    outcome |-> IF p.raised THEN "raise" ELSE "return",
                    error |-> p.error,
                    view |-> ccall.op # "none" /\ ccall.view]
       /\ UNCHANGED <<remote_vars, membership_vars, hierarchy_vars, thread_vars, frame_vars, heap, client>>

\* AwsOrgView(client): when it returns, the caller holds a new View with
\* five empty caches.
NewView ==
    LET v == AwsOrgView(client)
    IN /\ ccall' = [op |-> "AwsOrgView",
                    outcome |-> IF v.raised THEN "raise" ELSE "return",
                    error |-> v.error,
                    view |-> ~v.raised]
       /\ get_parent_cache' = <<>>
       /\ get_org_root_cache' = <<>>
       /\ describe_organizational_unit_cache' = <<>>
       /\ list_accounts_cache' = <<>>
       /\ list_child_ous_cache' = <<>>
       /\ call' = NoCall /\ hcall' = NoCall /\ hprev' = NoCall /\ fcall' = NoCall
       /\ queried' = {} /\ dropped' = FALSE /\ roots_asked' = FALSE
       /\ fetched' = NeverFetched
       /\ UNCHANGED <<remote_vars, thread_vars, frame_vars, heap, client>>

\* get_ou_hierarchy on the View that was constructed.
UseView ==
    /\ ccall.op # "none"
    /\ ccall.view
    /\ GetOuHierarchy

\* The constructors, applied to every kind of client handle, before the
\* example tree is read.
InitConstruct ==
    /\ parents_by_child = TreeParents(ExampleShape)
    /\ ous_pages_by_parent = TreeOusPages(ExampleShape, "ascending")
    /\ accounts_pages_by_parent = TreeAccountsPages("spread")
    /\ roots = <<[Id |-> RootId]>>
    /\ ou_details_by_id = TreeOuDetails
    /\ client \in ClientHandles
    /\ ccall = NoCall
    /\ EmptyCaches
    /\ call = NoCall /\ hcall = NoCall /\ hprev = NoCall /\ fcall = NoCall
    /\ queried = {} /\ dropped = FALSE /\ roots_asked = FALSE
    /\ fetched = NeverFetched
    /\ NoThreads
    /\ NoFrames
    /\ heap = <<>>

NextConstruct == NewProvider \/ NewView \/ UseView

SpecConstruct == InitConstruct /\ [][NextConstruct]_vars

\* The same operations on the directories where naming can fail.
NextNaming == GetOuHierarchy \/ HierarchyTick

SpecNaming == InitNaming /\ [][NextNaming]_vars

----------------------------------------------------------------------------
(* _get_parent called by several threads on one View.  Nothing in the View *)
(* serialises the calls, so the threads interleave between the statements  *)
(* of _get_parent and inside the cache's own item assignment.              *)

\* The key every caller looks up, and the key looked up afterwards.
SharedKey == AccountId
LaterKey == OuIds[1]

\* TTLCache.currsize of the parent cache.
currsize == Len(get_parent_cache) + currsize_drift

\* Cache.__setitem__, first half: room is made while the counter says the
\* cache is full, and the size difference is taken from whether the key is
\* stored at this moment.  popitem on a cache with no entry raises KeyError.
RECURSIVE MakeRoom(_, _)
MakeRoom(cache, drift) ==
    IF Len(cache) + drift + 1 <= cache_maxsize
    THEN [raised |-> FALSE, cache |-> cache]
    ELSE IF cache = <<>> THEN [raised |-> TRUE, cache |-> cache]
    ELSE MakeRoom(Tail(cache), drift)

SetItemBegin(cache, drift, key) ==
    IF key \in CacheKeys(cache)
    THEN [raised |-> FALSE, cache |-> cache, diffsize |-> 0]
    ELSE LET m == MakeRoom(cache, drift)
         IN [raised |-> m.raised, cache |-> m.cache, diffsize |-> 1]

\* Cache.__setitem__, second half: the value is stored as most recently
\* used with a fresh lifetime, and the counter grows by the difference
\* taken in the first half.
SetItemEnd(cache, drift, key, value, diffsize) ==
    [cache |-> Append(RemoveKey(cache, key),
                      [key |-> key, value |-> value, ttl_left |-> cache_ttl]),
     drift |-> drift + diffsize - (IF key \in CacheKeys(cache) THEN 0 ELSE 1)]

Finish(th, outcome, value, error) ==
    [th EXCEPT !.pc = "done", !.outcome = outcome, !.value = value, !.error = error]

\* A caller enters _get_parent(child_id).
ThreadCall(t) ==
    /\ threads[t].pc = "idle"
    /\ later = NoCall
    /\ threads' = [threads EXCEPT ![t] = [@ EXCEPT !.pc = "check", !.child_id = SharedKey]]
    /\ UNCHANGED <<remote_vars, membership_vars, hierarchy_vars, construct_vars, heap, frame_vars,
                   currsize_drift, later>>

\* if child_id in self._get_parent_cache
ThreadCheck(t) ==
    /\ threads[t].pc = "check"
    /\ LET th == threads[t]
       IN threads' = [threads EXCEPT ![t] =
            [th EXCEPT !.pc = IF CacheContains(get_parent_cache, th.child_id)
                              THEN "read" ELSE "remote"]]
    /\ UNCHANGED <<remote_vars, membership_vars, hierarchy_vars, construct_vars, heap, frame_vars,
                   currsize_drift, later>>

\* return self._get_parent_cache[child_id]
ThreadRead(t) ==
    /\ threads[t].pc = "read"
    /\ LET th == threads[t]
       IN IF CacheContains(get_parent_cache, th.child_id)
          THEN /\ threads' = [threads EXCEPT ![t] =
                     Finish(th, "return", CacheValue(get_parent_cache, th.child_id), None)]
               /\ get_parent_cache' = CacheTouch(get_parent_cache, th.child_id)
          ELSE /\ threads' = [threads EXCEPT ![t] = Finish(th, "raise", None, "KeyError")]
               /\ UNCHANGED get_parent_cache
    /\ UNCHANGED <<remote_vars, call, queried, dropped, fetched, hierarchy_vars,
                   construct_vars, heap, frame_vars, currsize_drift, later>>

\* list_parents, the check of the number of parents, parents[0].get("Id")
ThreadRemote(t) ==
    /\ threads[t].pc = "remote"
    /\ LET th == threads[t]
           parents == list_parents(th.child_id)
       IN threads' = [threads EXCEPT ![t] =
            IF Len(parents) # 1
            THEN [Finish(th, "raise", None, "ParentResolutionError") EXCEPT !.remote = TRUE]
            ELSE [th EXCEPT !.pc = "setitem", !.remote = TRUE,
                            !.parent_id = RecordGetId(parents[1])]]
    /\ UNCHANGED <<remote_vars, membership_vars, hierarchy_vars, construct_vars, heap, frame_vars,
                   currsize_drift, later>>

\* self._get_parent_cache[child_id] = parent_id, up to the store
ThreadSetItemBegin(t) ==
    /\ threads[t].pc = "setitem"
    /\ LET th == threads[t]
           b == SetItemBegin(get_parent_cache, currsize_drift, th.child_id)
       IN /\ get_parent_cache' = b.cache
          /\ threads' = [threads EXCEPT ![t] =
                IF b.raised THEN Finish(th, "raise", None, "KeyError")
                ELSE [th EXCEPT !.pc = "store", !.diffsize = b.diffsize]]
    /\ UNCHANGED <<remote_vars, call, queried, dropped, fetched, hierarchy_vars,
                   construct_vars, heap, frame_vars, currsize_drift, later>>

\* the store and the counter update of the assignment, then return parent_id
ThreadSetItemEnd(t) ==
    /\ threads[t].pc = "store"
    /\ LET th == threads[t]
           e == SetItemEnd(get_parent_cache, currsize_drift, th.child_id,
                           th.parent_id, th.diffsize)
       IN /\ get_parent_cache' = e.cache
          /\ currsize_drift' = e.drift
          /\ threads' = [threads EXCEPT ![t] = Finish(th, "return", th.parent_id, None)]
    /\ UNCHANGED <<remote_vars, call, queried, dropped, fetched, hierarchy_vars,
                   construct_vars, heap, frame_vars, later>>

AllDone == \A t \in Callers : threads[t].pc = "done"

\* Once every caller has returned, one caller alone looks up another key
\* that is not cached: check, list_parents, assignment, with no other thread
\* running.
LaterLookup ==
    /\ AllDone
    /\ later = NoCall
    /\ ~CacheContains(get_parent_cache, LaterKey)
    /\ LET parents == list_parents(LaterKey)
       IN IF Len(parents) # 1
          THEN /\ later' = [op |-> "_get_parent", outcome |-> "raise",
                            value |-> None, error |-> "ParentResolutionError"]
               /\ UNCHANGED <<get_parent_cache, currsize_drift>>
          ELSE LET parent_id == RecordGetId(parents[1])
                   b == SetItemBegin(get_parent_cache, currsize_drift, LaterKey)
                   e == SetItemEnd(b.cache, currsize_drift, LaterKey, parent_id, b.diffsize)
               IN IF b.raised
                  THEN /\ later' = [op |-> "_get_parent", outcome |-> "raise",
                                    value |-> None, error |-> "KeyError"]
                       /\ get_parent_cache' = b.cache
                       /\ UNCHANGED currsize_drift
                  ELSE /\ later' = [op |-> "_get_parent", outcome |-> "return",
                                    value |-> parent_id, error |-> None]
                       /\ get_parent_cache' = e.cache
                       /\ currsize_drift' = e.drift
    /\ UNCHANGED <<remote_vars, call, queried, dropped, fetched, hierarchy_vars,
                   construct_vars, heap, frame_vars, threads>>

\* The directories the callers race on: a sound chain, and the chain with
\* the shared key's answer faulty.
RaceDirectories ==
    {ChainDirectory(1)}
    \cup {FaultyDirectory(1, 0, kind) : kind \in {"zero", "noid"}}

InitRace ==
    /\ parents_by_child \in RaceDirectories
    /\ BareListings
    /\ FreshView

NextRace ==
    \/ \E t \in Callers : ThreadCall(t)
    \/ \E t \in Callers : ThreadCheck(t)
    \/ \E t \in Callers : ThreadRead(t)
    \/ \E t \in Callers : ThreadRemote(t)
    \/ \E t \in Callers : ThreadSetItemBegin(t)
    \/ \E t \in Callers : ThreadSetItemEnd(t)
    \/ LaterLookup

SpecRace == InitRace /\ [][NextRace]_vars

----------------------------------------------------------------------------
(* get_ou_hierarchy on an OU whose describe response has no usable name,   *)
(* while the OU is given a name upstream.                                  *)

\* ou-1 acquires its name upstream.
AcquireName ==
    /\ IsFalsy(DetailsName(ou_details_by_id[OuIds[1]]))
    /\ ou_details_by_id' =
            [ou_details_by_id EXCEPT ![OuIds[1]] = DescribeResponse("named", 1)]
    /\ UNCHANGED <<parents_by_child, roots, accounts_pages_by_parent,
                   ous_pages_by_parent, membership_vars, hierarchy_vars,
                   construct_vars, heap, thread_vars, frame_vars>>

InitRename ==
    /\ parents_by_child = TreeParents(ExampleShape)
    /\ ous_pages_by_parent = TreeOusPages(ExampleShape, "ascending")
    /\ accounts_pages_by_parent = TreeAccountsPages("spread")
    /\ roots = RootsLists["one"]
    /\ \E kind \in DetailsKinds \ {"named"} :
        ou_details_by_id = [TreeOuDetails EXCEPT ![OuIds[1]] = DescribeResponse(kind, 1)]
    /\ FreshView

NextRename == GetOuHierarchy \/ HierarchyTick \/ AcquireName

SpecRename == InitRename /\ [][NextRename]_vars

----------------------------------------------------------------------------
(* Results and the accounts cache share list objects: _list_accounts       *)
(* returns the very list it has cached, and _build_ou_hierarchy puts that  *)
(* list into the node.  Here a list is a reference into the heap, so that  *)
(* a write through one holder is seen by the other.                        *)

\* The list object _list_accounts creates for a parent, and the list object
\* _get_accounts creates for a unit.
ListingRef(parent_id) == <<"listing", parent_id>>
FlatRef(unit_id) == <<"flat", unit_id>>

HeapSet(h, ref, contents) ==
    [r \in DOMAIN h \cup {ref} |-> IF r = ref THEN contents ELSE h[r]]
HeapKeep(h, refs) == [r \in DOMAIN h \cap refs |-> h[r]]

\* No copy: the unit's own list object is used.
ListCopy_same_object(h, ref, fresh) == [heap |-> h, ref |-> ref]

\* list(unit.get("accounts", [])): a new list object with the same items.
ListCopy(h, ref, fresh) == [heap |-> HeapSet(h, fresh, h[ref]), ref |-> fresh]

\* accounts.extend(other): the object behind ref grows in place.
ListExtend(h, ref, other) == HeapSet(h, ref, h[ref] \o h[other])

\* _list_accounts: a hit returns the cached object; a miss builds a new
\* list, caches it and returns it.
list_accounts_shared(parent_id, st, h) ==
    IF CacheContains(st.list_accounts_cache, parent_id)
    THEN [ref |-> CacheValue(st.list_accounts_cache, parent_id),
          st |-> [st EXCEPT !.list_accounts_cache = CacheTouch(@, parent_id)],
          heap |-> h]
    ELSE LET x == ExtendAccounts(<<>>, list_accounts_for_parent(parent_id))
         IN [ref |-> ListingRef(parent_id),
             st |-> [st EXCEPT
                 !.list_accounts_cache = CacheSet(@, parent_id, ListingRef(parent_id)),
                 !.accounts_listed = Append(@, parent_id)],
             heap |-> HeapSet(h, ListingRef(parent_id), x.value)]

\* _build_ou_hierarchy with the node holding the list object itself.
RECURSIVE build_shared(_, _, _, _, _), BuildChildrenShared(_, _, _, _, _, _)
build_shared(parent_id, parent_name, direct_descendants_only, st, h) ==
    LET a == list_accounts_shared(parent_id, st, h)
        ou_tree == [name |-> parent_name, accounts |-> a.ref, org_units |-> <<>>]
        o == list_child_ous(parent_id, a.st)
    IN BuildChildrenShared(o.value, 1, direct_descendants_only, ou_tree, o.st, a.heap)

BuildChildrenShared(child_ous, k, direct_descendants_only, ou_tree, st, h) ==
    IF k > Len(child_ous)
    THEN [value |-> ou_tree, st |-> st, heap |-> h]
    ELSE
    LET ou == child_ous[k]
    IN IF direct_descendants_only
       THEN BuildChildrenShared(child_ous, k + 1, direct_descendants_only,
                [ou_tree EXCEPT !.org_units = DictSet(@, ou.Id, ShallowStub(ou))], st, h)
       ELSE LET sub == build_shared(ou.Id, ou.Name, FALSE, st, h)
            IN BuildChildrenShared(child_ous, k + 1, direct_descendants_only,
                    [ou_tree EXCEPT !.org_units = DictSet(@, ou.Id, sub.value)],
                    sub.st, sub.heap)

get_ou_hierarchy_shared(parent_id, direct_descendants_only, st, h) ==
    LET p == ResolveParent(parent_id, st)
    IN IF p.raised
       THEN [outcome |-> "raise", error |-> p.error, result |-> <<>>, st |-> p.st,
             heap |-> h]
       ELSE LET b == build_shared(p.parent_id, p.parent_name,
                                  direct_descendants_only, p.st, h)
            IN [outcome |-> "return", error |-> None,
                result |-> DictSet(<<>>, p.parent_id, b.value), st |-> b.st,
                heap |-> b.heap]

\* OUMembershipRetrieverResult._get_accounts on list objects: the unit's
\* accounts are copied, and the copy is extended with what each child
\* returns.
RECURSIVE flatten_shared(_, _, _), ExtendFromChildrenShared(_, _, _)
flatten_shared(unit, unit_id, h) ==
    LET c == IF "accounts" \in DOMAIN unit
             THEN ListCopy(h, unit.accounts, FlatRef(unit_id))
             ELSE [heap |-> HeapSet(h, FlatRef(unit_id), <<>>), ref |-> FlatRef(unit_id)]
        ou_children == IF "org_units" \in DOMAIN unit THEN unit.org_units ELSE <<>>
    IN ExtendFromChildrenShared(c.ref, ou_children, c.heap)

ExtendFromChildrenShared(accounts, ou_children, h) ==
    IF ou_children = <<>> THEN [ref |-> accounts, heap |-> h]
    ELSE LET r == flatten_shared(Head(ou_children).value, Head(ou_children).key, h)
         IN ExtendFromChildrenShared(accounts, Tail(ou_children),
                                     ListExtend(r.heap, accounts, r.ref))

IsListing(ref) == ref[1] = "listing"

\* OUMembershipRetrieverResult.get_accounts; the lists made for the units
\* below the top are dropped when it returns.
get_accounts_shared(result, h) ==
    IF Len(result) # 1
    THEN [raised |-> TRUE, error |-> "ValueError", ref |-> None, heap |-> h]
    ELSE LET f == flatten_shared(result[1].value, result[1].key, h)
         IN [raised |-> FALSE, error |-> None, ref |-> f.ref,
             heap |-> HeapKeep(f.heap, {r \in DOMAIN f.heap : IsListing(r)} \cup {f.ref})]

\* The node with every list object replaced by its present contents.
RECURSIVE DerefNode(_, _)
DerefNode(unit, h) ==
    IF "accounts" \notin DOMAIN unit THEN unit
    ELSE [name |-> unit.name,
          accounts |-> h[unit.accounts],
          org_units |-> [i \in DOMAIN unit.org_units |->
                            [key |-> unit.org_units[i].key,
                             value |-> DerefNode(unit.org_units[i].value, h)]]]
DerefResult(result, h) ==
    [i \in DOMAIN result |->
        [key |-> result[i].key, value |-> DerefNode(result[i].value, h)]]

\* The list objects a node holds.
RECURSIVE NodeRefs(_)
NodeRefs(unit) ==
    IF "accounts" \notin DOMAIN unit THEN {}
    ELSE {unit.accounts}
         \cup UNION {NodeRefs(unit.org_units[i].value) : i \in DOMAIN unit.org_units}
ResultRefs(result) == UNION {NodeRefs(result[i].value) : i \in DOMAIN result}
CachedRefs(cache) == {cache[i].value : i \in DOMAIN cache}

\* get_ou_hierarchy.  The call records the result as returned and, apart,
\* what its lists held at that moment; a list object that neither the cache
\* nor the result holds any more is gone.
GetOuHierarchyShared ==
    \E parent_id \in HierarchyParents, direct_descendants_only \in BOOLEAN :
        LET r == get_ou_hierarchy_shared(parent_id, direct_descendants_only,
                                         HierarchyState, heap)
        IN /\ get_org_root_cache' = r.st.get_org_root_cache
           /\ describe_organizational_unit_cache' = r.st.describe_organizational_unit_cache
           /\ list_accounts_cache' = r.st.list_accounts_cache
           /\ list_child_ous_cache' = r.st.list_child_ous_cache
           /\ heap' = HeapKeep(r.heap, CachedRefs(r.st.list_accounts_cache)
                                       \cup ResultRefs(r.result))
           /\ hcall' = [op |-> "get_ou_hierarchy",
                        parent_id |-> parent_id,
                        direct_descendants_only |-> direct_descendants_only,
                        outcome |-> r.outcome, error |-> r.error, result |-> r.result,
                        returned |-> DerefResult(r.result, r.heap),
                        accounts_listed |-> r.st.accounts_listed,
                        after_flatten |->
                            /\ fcall.op = "get_accounts"
                            /\ hcall.parent_id = parent_id]
           /\ roots_asked' = (roots_asked \/ r.st.roots_listed > 0)
           /\ fcall' = NoCall
           /\ hprev' = NoCall
           /\ UNCHANGED <<remote_vars, membership_vars, construct_vars, thread_vars,
                          frame_vars>>

\* get_accounts on the result of the last call; the list it returned before
\* has been dropped by the caller.
GetAccountsShared ==
    /\ hcall.op = "get_ou_hierarchy"
    /\ hcall.outcome = "return"
    /\ LET f == get_accounts_shared(hcall.result,
                    HeapKeep(heap, {r \in DOMAIN heap : IsListing(r)}))
       IN /\ heap' = f.heap
          /\ fcall' = [op |-> "get_accounts",
                       outcome |-> IF f.raised THEN "raise" ELSE "return",
                       error |-> f.error, ref |-> f.ref,
                       value |-> IF f.raised THEN <<>> ELSE f.heap[f.ref],
                       repeated |-> fcall.op = "get_accounts"]
    /\ UNCHANGED <<remote_vars, membership_vars, construct_vars, thread_vars,
                   frame_vars, get_org_root_cache, describe_organizational_unit_cache,
                   list_accounts_cache, list_child_ous_cache, hcall, hprev, roots_asked>>

InitAlias ==
    /\ \E par \in {ExampleShape, ChainShape}, layout \in {"spread", "paged"} :
        /\ parents_by_child = TreeParents(par)
        /\ ous_pages_by_parent = TreeOusPages(par, "ascending")
        /\ accounts_pages_by_parent = TreeAccountsPages(layout)
    /\ roots = <<[Id |-> RootId]>>
    /\ ou_details_by_id = TreeOuDetails
    /\ FreshView

NextAlias == GetOuHierarchyShared \/ GetAccountsShared

SpecAlias == InitAlias /\ [][NextAlias]_vars

----------------------------------------------------------------------------
(* Both public operations on one View, with time passing for all five      *)
(* caches: the history of a call is any sequence of earlier calls.         *)

\* The calls are recorded with their arguments, their outcome and the
\* remote listings they issued; the traces kept for the single-operation
\* state machines are left as they are.

\* The parent a call works on, when it is known before the call: the
\* argument, or the cached root id.
KnownParent(parent_id) ==
    IF parent_id # None THEN parent_id
    ELSE IF CacheContains(get_org_root_cache, "id")
    THEN CacheValue(get_org_root_cache, "id")
    ELSE None

\* get_ou_hierarchy.  The call before it is kept when it was a shallow call
\* on the same parent argument; parent_cached tells whether both listings of
\* the parent were in the caches when the call was made.
SharedHierarchy ==
    \E parent_id \in HierarchyParents, direct_descendants_only \in BOOLEAN :
        LET r == get_ou_hierarchy(parent_id, direct_descendants_only, HierarchyState)
        IN /\ get_org_root_cache' = r.st.get_org_root_cache
           /\ describe_organizational_unit_cache' = r.st.describe_organizational_unit_cache
           /\ list_accounts_cache' = r.st.list_accounts_cache
           /\ list_child_ous_cache' = r.st.list_child_ous_cache
           /\ hcall' = [op |-> "get_ou_hierarchy",
                        parent_id |-> parent_id,
                        direct_descendants_only |-> direct_descendants_only,
                        outcome |-> r.outcome, error |-> r.error, result |-> r.result,
                        accounts_listed |-> r.st.accounts_listed,
                        ous_listed |-> r.st.ous_listed,
                        parent_cached |->
                            /\ CacheContains(list_accounts_cache, KnownParent(parent_id))
                            /\ CacheContains(list_child_ous_cache, KnownParent(parent_id)),
                        ticked |-> FALSE]
           /\ hprev' = IF /\ hcall.op # "none"
                          /\ hcall.parent_id = parent_id
                          /\ hcall.direct_descendants_only
                          /\ ~direct_descendants_only
                       THEN [op |-> hcall.op, outcome |-> hcall.outcome,
                             ticked |-> hcall.ticked]
                       ELSE NoCall
           /\ call' = NoCall
           /\ UNCHANGED <<remote_vars, get_parent_cache, queried, dropped, fetched,
                          roots_asked, fcall, construct_vars, heap, thread_vars, frame_vars>>

\* account_in_haystack on the same View.
SharedHaystack ==
    \E account_id \in StartIds, haystack \in HaystackInputs,
       require_direct_descendant \in BOOLEAN :
        LET r == account_in_haystack(account_id, haystack,
                                     require_direct_descendant, get_parent_cache)
        IN /\ get_parent_cache' = r.cache
           /\ call' = [op |-> "account_in_haystack",
                       account_id |-> account_id,
                       haystack |-> haystack,
                       require_direct_descendant |-> require_direct_descendant,
                       outcome |-> r.outcome, value |-> r.value, error |-> r.error,
                       remote |-> RemoteChildren(r.lookups) # {}]
           /\ hcall' = NoCall
           /\ hprev' = NoCall
           /\ UNCHANGED <<remote_vars, get_org_root_cache,
                          describe_organizational_unit_cache, list_accounts_cache,
                          list_child_ous_cache, queried, dropped, fetched,
                          roots_asked, fcall, construct_vars, heap, thread_vars, frame_vars>>

\* Time passes for the five caches at once.
SharedTick ==
    /\ \/ LiveKeys(get_parent_cache) # {}
       \/ \E i \in 1..4 : LiveKeys(HierarchyCaches[i]) # {}
    /\ get_parent_cache' = CacheExpire(CacheAge(get_parent_cache))
    /\ get_org_root_cache' = CacheExpire(CacheAge(get_org_root_cache))
    /\ describe_organizational_unit_cache' =
            CacheExpire(CacheAge(describe_organizational_unit_cache))
    /\ list_accounts_cache' = CacheExpire(CacheAge(list_accounts_cache))
    /\ list_child_ous_cache' = CacheExpire(CacheAge(list_child_ous_cache))
    /\ hcall' = IF hcall.op = "none" THEN hcall ELSE [hcall EXCEPT !.ticked = TRUE]
    /\ call' = NoCall
    /\ UNCHANGED <<remote_vars, queried, dropped, fetched, hprev, roots_asked, fcall,
                   construct_vars, heap, thread_vars, frame_vars>>

\* The directory the two operations share: root{111111111111} -> ou-1{A2, A1}
\* -> ou-2{A3}, the accounts of ou-1 listed on two pages.
SharedNodes == {RootId, OuIds[1], OuIds[2]}
SharedOusPages ==
    [id \in SharedNodes |->
        IF id = RootId THEN <<[OrganizationalUnits |-> <<OuRecord(1)>>]>>
        ELSE IF id = OuIds[1] THEN <<[OrganizationalUnits |-> <<OuRecord(2)>>]>>
        ELSE <<[OrganizationalUnits |-> <<>>]>>]
SharedAccountsPages ==
    [id \in SharedNodes |->
        IF id = RootId THEN <<[Accounts |-> <<Account(AccountId)>>]>>
        ELSE IF id = OuIds[1]
        THEN <<[Accounts |-> <<Account("A2")>>], [Accounts |-> <<Account("A1")>>]>>
        ELSE <<[Accounts |-> <<Account("A3")>>]>>]

InitShared ==
    /\ parents_by_child = ChainDirectory(0)
    /\ ous_pages_by_parent = SharedOusPages
    /\ accounts_pages_by_parent = SharedAccountsPages
    /\ roots = <<[Id |-> RootId]>>
    /\ ou_details_by_id = TreeOuDetails
    /\ FreshView

NextShared == SharedHierarchy \/ SharedHaystack \/ SharedTick

SpecShared == InitShared /\ [][NextShared]_vars

----------------------------------------------------------------------------
(* _build_ou_hierarchy in full mode, one activation at a time: the call    *)
(* stack is explicit, so that a listing relation with a cycle can be       *)
(* explored as far as the stack is allowed to grow.                        *)

\* The deepest call stack explored.
MaxFrames == 6

\* A depth limit of two levels below the requested parent.
RecursesInto_two_levels(stack) == Len(stack) < 3

\* if direct_descendants_only: ... else: recurse.  In full mode the loop
\* recurses into the child whatever the depth of the stack.
RecursesInto(stack) == TRUE

\* The activation _build_ou_hierarchy(parent_id, parent_name, False) on
\* entry, before its listings are read.
NewFrame(parent_id, parent_name) ==
    [pc |-> "enter", parent_id |-> parent_id, parent_name |-> parent_name,
     child_ous |-> <<>>, k |-> 1, ou_tree |-> <<>>]

Top == frames[Len(frames)]
Below == SubSeq(frames, 1, Len(frames) - 1)

\* get_ou_hierarchy calls _build_ou_hierarchy(parent_id, parent_name, False)
\* on the root or on an OU whose name it has resolved.
BuildStart ==
    /\ frames = <<>>
    /\ \E j \in 0..1 :
        /\ frames' = <<NewFrame(NodeId(j), IF j = 0 THEN RootName ELSE OuNames[j])>>
        /\ bcall' = [op |-> "_build_ou_hierarchy", parent_id |-> NodeId(j),
                     outcome |-> "running", error |-> None, value |-> <<>>]
    /\ built' = <<>>
    /\ UNCHANGED <<remote_vars, membership_vars, hierarchy_vars, construct_vars, heap,
                   thread_vars>>

\* The head of the function: the node with the accounts listing, then the
\* child-OU listing, both through their caches.
FrameEnter ==
    /\ frames # <<>>
    /\ Top.pc = "enter"
    /\ LET a == list_accounts(Top.parent_id, HierarchyState)
           o == list_child_ous(Top.parent_id, a.st)
           failed == a.raised \/ o.raised
           st == IF a.raised THEN a.st ELSE o.st
       IN /\ list_accounts_cache' = st.list_accounts_cache
          /\ list_child_ous_cache' = st.list_child_ous_cache
          /\ built' = Append(built, Top.parent_id)
          /\ IF failed
             THEN /\ frames' = <<>>
                  /\ bcall' = [bcall EXCEPT !.outcome = "raise",
                                  !.error = IF a.raised THEN a.error ELSE o.error]
             ELSE /\ frames' = Append(Below,
                        [Top EXCEPT !.pc = "loop", !.child_ous = o.value,
                            !.ou_tree = [name |-> Top.parent_name, accounts |-> a.value,
                                         org_units |-> <<>>]])
                  /\ UNCHANGED bcall
    /\ UNCHANGED <<remote_vars, membership_vars, construct_vars, heap, thread_vars,
                   get_org_root_cache, describe_organizational_unit_cache,
                   hcall, hprev, roots_asked, fcall>>

\* The loop reaches a child OU and calls _build_ou_hierarchy for it.
FrameDescend ==
    /\ frames # <<>>
    /\ Top.pc = "loop"
    /\ Top.k <= Len(Top.child_ous)
    /\ LET ou == Top.child_ous[Top.k]
       IN IF RecursesInto(frames)
          THEN /\ Len(frames) < MaxFrames
               /\ frames' = Append(frames, NewFrame(ou.Id, ou.Name))
          ELSE frames' = Append(Below, [Top EXCEPT !.k = @ + 1])
    /\ UNCHANGED <<remote_vars, membership_vars, hierarchy_vars, construct_vars, heap,
                   thread_vars, built, bcall>>

\* The loop is over: return ou_tree, which the caller stores under the
\* child's id before it goes on with its own loop.
FrameReturn ==
    /\ frames # <<>>
    /\ Top.pc = "loop"
    /\ Top.k > Len(Top.child_ous)
    /\ IF Len(frames) = 1
       THEN /\ frames' = <<>>
            /\ bcall' = [bcall EXCEPT !.outcome = "return", !.value = Top.ou_tree]
       ELSE LET caller == frames[Len(frames) - 1]
            IN /\ frames' = Append(SubSeq(frames, 1, Len(frames) - 2),
                     [caller EXCEPT !.k = @ + 1,
                         !.ou_tree = [@ EXCEPT !.org_units =
                             DictSet(@, Top.parent_id, Top.ou_tree)]])
               /\ UNCHANGED bcall
    /\ UNCHANGED <<remote_vars, membership_vars, hierarchy_vars, construct_vars, heap,
                   thread_vars, built>>

\* The child-OU listings of a tree, with OU `to` also listed under `from`.
ListedAlso(par, from, to) ==
    [TreeOusPages(par, "ascending") EXCEPT
        ![NodeId(from)] = Append(@, [OrganizationalUnits |-> <<OuRecord(to)>>])]

\* The listing relations explored: the trees; a relation where an OU is
\* listed under two parents; relations where an OU lists an ancestor or
\* itself.
RecurseListings ==
    {TreeOusPages(par, "ascending") : par \in TreeShapes}
    \cup {ListedAlso(StarShape, 1, 2)}
    \cup {ListedAlso(ChainShape, MaxOus, 1), ListedAlso(ExampleShape, 1, 1),
          ListedAlso(ChainShape, 2, 1)}

InitRecurse ==
    /\ parents_by_child = TreeParents(ExampleShape)
    /\ roots = <<[Id |-> RootId]>>
    /\ ou_details_by_id = TreeOuDetails
    /\ accounts_pages_by_parent = TreeAccountsPages("spread")
    /\ ous_pages_by_parent \in RecurseListings
    /\ FreshView

NextRecurse == BuildStart \/ FrameEnter \/ FrameDescend \/ FrameReturn

\* An activation that can take a step takes it: the interpreter does not
\* stop in the middle of a call.
SpecRecurse == InitRecurse /\ [][NextRecurse]_vars /\ WF_vars(NextRecurse)

----------------------------------------------------------------------------
(* What the directory itself says, read without the View.                  *)

\* The number of OU levels the organization directory supports under a root.
MaxOuNesting == 5

\* The parent the directory records for id, when it records exactly one.
HasOneParent(id) == Len(parents_by_child[id]) = 1
DirectoryParent(id) == RecordGetId(parents_by_child[id][1])

\* id followed by its ancestors, as far as the directory leads.
RECURSIVE ChainFrom(_, _)
ChainFrom(id, fuel) ==
    IF fuel = 0 \/ id \notin Nodes \/ ~HasOneParent(id) THEN <<id>>
    ELSE <<id>> \o ChainFrom(DirectoryParent(id), fuel - 1)

ChainOf(id) == ChainFrom(id, Cardinality(Nodes))
ChainSet(id) == {ChainOf(id)[i] : i \in DOMAIN ChainOf(id)}
ReachesRoot(id) == StartsWithRootPrefix(ChainOf(id)[Len(ChainOf(id))])
\* The OUs strictly between id and the root.
NestingOf(id) == Len(ChainOf(id)) - 2

IsWalk == call.op = "account_in_haystack"
IsLookup == call.op = "_get_parent"
Returned(value) == call.outcome = "return" /\ call.value = value
LookedUp == {call.lookups[i].child_id : i \in DOMAIN call.lookups}
TestedSet == {call.tested[i] : i \in DOMAIN call.tested}

----------------------------------------------------------------------------
(* Claims about account_in_haystack and _get_parent.                       *)

\* C1: for an account under at most five nested OUs, the unrestricted walk
\* returns true exactly when the account, one of its ancestor OUs or the root
\* is in the haystack.
C1_TrueIffOnChain ==
    (/\ IsWalk
     /\ call.account_id = AccountId
     /\ ~call.require_direct_descendant
     /\ ReachesRoot(AccountId)
     /\ NestingOf(AccountId) <= MaxOuNesting)
    => /\ call.outcome = "return"
       /\ call.value <=> (ChainSet(AccountId) \cap call.haystack # {})

\* C2: a starting identifier that is in the haystack gives true without any
\* parent resolution, whatever the flag and the cache.
C2_SelfMatchNeedsNoLookup ==
    (IsWalk /\ call.account_id \in call.haystack)
    => /\ Returned(TRUE)
       /\ call.lookups = <<>>
       /\ call.tested = <<call.account_id>>

C2_Witness ==
    /\ IsWalk
    /\ call.account_id \in call.haystack
    /\ call.account_id = AccountId
    /\ get_parent_cache # <<>>
    /\ queried # {}

\* C3: when the chain reaches a root that is not in the haystack (nor is any
\* node before it), the unrestricted walk tests the root, returns false, never
\* resolves the root's parent, and tests at most six nodes.
C3_StopsAtRoot ==
    (/\ IsWalk
     /\ ~call.require_direct_descendant
     /\ ReachesRoot(call.account_id)
     /\ NestingOf(call.account_id) <= MaxOuNesting
     /\ ChainSet(call.account_id) \cap call.haystack = {})
    => /\ RootId \in TestedSet
       /\ Returned(FALSE)
       /\ RootId \notin LookedUp
       /\ Len(call.tested) <= RangeHops

\* C4: with require_direct_descendant the walk resolves at most one parent
\* and returns true exactly when the start or its immediate parent is in the
\* haystack.
C4_DirectDescendant ==
    (IsWalk /\ call.require_direct_descendant)
    => /\ Len(call.lookups) <= 1
       /\ Returned(TRUE) <=>
            \/ call.account_id \in call.haystack
            \/ /\ HasOneParent(call.account_id)
               /\ DirectoryParent(call.account_id) \in call.haystack

\* The grandparent is in the haystack, one parent was resolved, the answer is
\* false.
C4_Witness ==
    /\ IsWalk /\ call.require_direct_descendant
    /\ Len(call.lookups) = 1
    /\ Len(ChainOf(call.account_id)) >= 3
    /\ ChainOf(call.account_id)[3] \in call.haystack
    /\ Returned(FALSE)

\* The children whose directory answer makes _get_parent raise.
Inconsistent(id) == Len(parents_by_child[id]) # 1

\* The outcome of the same walk on a View that has cached nothing.
FreshOutcome ==
    LET w == Walk(0, call.account_id, call.haystack,
                  call.require_direct_descendant,
                  [cache |-> <<>>, tested |-> <<>>, lookups |-> <<>>,
                   evicted |-> FALSE, error |-> None])
    IN <<w.outcome, w.value, w.error>>

\* A lookup answered from the cache calls nothing and returns what the
\* directory had answered.
HitsAreLocal ==
    \A i \in DOMAIN call.lookups :
        call.lookups[i].hit =>
            /\ ~call.lookups[i].remote
            /\ ~call.lookups[i].raised
            /\ HasOneParent(call.lookups[i].child_id)
            /\ call.lookups[i].value = DirectoryParent(call.lookups[i].child_id)

\* C5 as stated: while nothing has expired or been evicted, a cached child
\* is answered locally, list_parents is called at most once per child id, and
\* a walk returns what the same walk returns on any other cache state.
C5_AtMostOnceAnyChild ==
    (call.op # "none" /\ ~dropped)
    => /\ HitsAreLocal
       /\ call.requeried = {}
       /\ IsWalk => <<call.outcome, call.value, call.error>> = FreshOutcome

\* C5 amended: list_parents is called at most once per child id whose
\* lookup succeeded; a child whose lookup raised is not cached and is queried
\* again.
C5_AtMostOnceResolvedChild ==
    (call.op # "none" /\ ~dropped)
    => /\ HitsAreLocal
       /\ \A c \in call.requeried : Inconsistent(c)
       /\ IsWalk => <<call.outcome, call.value, call.error>> = FreshOutcome

\* A second lookup of a child, answered from the cache.
C5_Witness ==
    /\ IsLookup /\ ~dropped
    /\ call.lookups[1].hit
    /\ call.child_id \in queried
    /\ call.value = DirectoryParent(call.child_id)

\* C6: zero or several parent records make _get_parent raise
\* ParentResolutionError without caching anything for the child; the walk
\* passes the error on; every later lookup asks the directory again.
C6_InconsistencyRaisesUncached ==
    call.op # "none" =>
        \A i \in DOMAIN call.lookups :
            Inconsistent(call.lookups[i].child_id) =>
                /\ call.lookups[i].raised
                /\ call.lookups[i].remote
                /\ ~call.lookups[i].hit
                /\ i = Len(call.lookups)
                /\ call.outcome = "raise"
                /\ call.error = "ParentResolutionError"
                /\ call.lookups[i].child_id \notin CacheKeys(get_parent_cache)

\* A walk that raises on a child the directory had already been asked about.
C6_Witness ==
    /\ IsWalk
    /\ call.outcome = "raise"
    /\ \E c \in call.requeried : Inconsistent(c) /\ c # call.account_id

\* The children whose single parent record has no Id field.
NoIdRecord(id) == HasOneParent(id) /\ "Id" \notin DOMAIN parents_by_child[id][1]

\* C7: a single parent record without an Id gives the absence marker, which
\* is cached like any result; the walk ends there with false, without raising.
C7_AbsenceIsCachedDeadEnd ==
    call.op # "none" =>
        \A i \in DOMAIN call.lookups :
            NoIdRecord(call.lookups[i].child_id) =>
                /\ ~call.lookups[i].raised
                /\ call.lookups[i].value = None
                /\ call.lookups[i].hit => ~call.lookups[i].remote
                /\ i = Len(call.lookups)
                /\ CacheContains(get_parent_cache, call.lookups[i].child_id)
                /\ CacheValue(get_parent_cache, call.lookups[i].child_id) = None
                /\ Returned(IF IsWalk THEN FALSE ELSE None)

\* A walk that reaches the dead end through the cache.
C7_Witness ==
    /\ IsWalk
    /\ Returned(FALSE)
    /\ Len(call.lookups) = 2
    /\ NoIdRecord(call.lookups[2].child_id)
    /\ call.lookups[2].hit

----------------------------------------------------------------------------
(* Claims about get_ou_hierarchy and get_accounts.                         *)

RECURSIVE Concat(_)
Concat(seqs) == IF seqs = <<>> THEN <<>> ELSE Head(seqs) \o Concat(Tail(seqs))

\* What the remote API lists under id, over all its pages.
ListedAccounts(id) ==
    Concat([i \in DOMAIN accounts_pages_by_parent[id] |->
                accounts_pages_by_parent[id][i].Accounts])
ListedOus(id) ==
    Concat([i \in DOMAIN ous_pages_by_parent[id] |->
                ous_pages_by_parent[id][i].OrganizationalUnits])

\* The node of id read off the remote listings: its accounts, and its child
\* OUs in listing order, each with its own node.
RECURSIVE ReferenceNode(_, _)
ReferenceNode(id, name) ==
    [name |-> name,
     accounts |-> ListedAccounts(id),
     org_units |-> [i \in DOMAIN ListedOus(id) |->
                        [key |-> ListedOus(id)[i].Id,
                         value |-> ReferenceNode(ListedOus(id)[i].Id,
                                                 ListedOus(id)[i].Name)]]]

\* The accounts under id, depth first: its own, then those of each child OU
\* in listing order.
RECURSIVE DepthFirstAccounts(_)
DepthFirstAccounts(id) ==
    ListedAccounts(id) \o
    Concat([i \in DOMAIN ListedOus(id) |-> DepthFirstAccounts(ListedOus(id)[i].Id)])

\* id and every OU below it.
RECURSIVE Subtree(_)
Subtree(id) ==
    {id} \cup UNION {Subtree(ListedOus(id)[i].Id) : i \in DOMAIN ListedOus(id)}

IsHierarchy == hcall.op = "get_ou_hierarchy"
HierarchyReturned == IsHierarchy /\ hcall.outcome = "return"
ResolvedParent == IF hcall.parent_id = None THEN roots[1].Id ELSE hcall.parent_id
ResolvedName ==
    IF StartsWithRootPrefix(ResolvedParent) THEN RootName
    ELSE ou_details_by_id[ResolvedParent].OrganizationalUnit.Name
ResultNode == hcall.result[1].value
OnExampleTree ==
    /\ parents_by_child = TreeParents(ExampleShape)
    /\ accounts_pages_by_parent = TreeAccountsPages("spread")
Occurrences(seq, x) == Cardinality({i \in DOMAIN seq : seq[i] = x})

\* C8: a full-mode call returns, under the requested parent, the node
\* {name, accounts, org_units} with every child OU built recursively in
\* listing order; get_accounts on it is the depth-first concatenation of each
\* node's own accounts followed by those of its child OUs, and on the tree
\* root{A1} -> ou-1{A2} -> ou-3{A3} with sibling ou-2{} it is [A1, A2, A3].
C8_FullModeDepthFirst ==
    (HierarchyReturned /\ ~hcall.direct_descendants_only)
    => /\ hcall.result =
            <<[key |-> ResolvedParent,
               value |-> ReferenceNode(ResolvedParent, ResolvedName)]>>
       /\ DOMAIN ResultNode = {"name", "accounts", "org_units"}
       /\ ~get_accounts(hcall.result).raised
       /\ get_accounts(hcall.result).value = DepthFirstAccounts(ResolvedParent)
       /\ (OnExampleTree /\ StartsWithRootPrefix(ResolvedParent))
            => get_accounts(hcall.result).value =
                    <<Account("A1"), Account("A2"), Account("A3")>>

\* The full-mode call on the root of the example tree, two levels deep.
C8_Witness ==
    /\ HierarchyReturned
    /\ ~hcall.direct_descendants_only
    /\ OnExampleTree
    /\ hcall.parent_id = RootId
    /\ Len(ResultNode.org_units) >= 2
    /\ \E i \in DOMAIN ResultNode.org_units :
            ResultNode.org_units[i].value.org_units # <<>>
    /\ get_accounts(hcall.result).value =
            <<Account("A1"), Account("A2"), Account("A3")>>

\* C9: a shallow call returns the requested parent's own accounts and, for
\* each child OU in listing order, a stub holding only its name (no accounts
\* and no org_units key), and lists accounts and OUs of the requested parent
\* only, never of a child OU.
C9_ShallowStubsOnly ==
    (HierarchyReturned /\ hcall.direct_descendants_only)
    => /\ Len(hcall.result) = 1
       /\ hcall.result[1].key = ResolvedParent
       /\ ResultNode.name = ResolvedName
       /\ ResultNode.accounts = ListedAccounts(ResolvedParent)
       /\ ResultNode.org_units =
            [i \in DOMAIN ListedOus(ResolvedParent) |->
                [key |-> ListedOus(ResolvedParent)[i].Id,
                 value |-> [name |-> ListedOus(ResolvedParent)[i].Name]]]
       /\ \A i \in DOMAIN ResultNode.org_units :
            DOMAIN ResultNode.org_units[i].value = {"name"}
       /\ \A i \in DOMAIN hcall.accounts_listed :
            hcall.accounts_listed[i] = ResolvedParent
       /\ \A i \in DOMAIN hcall.ous_listed :
            hcall.ous_listed[i] = ResolvedParent

\* A shallow call, answered remotely, on a parent with accounts of its own
\* and a child OU that has descendants.
C9_Witness ==
    /\ HierarchyReturned
    /\ hcall.direct_descendants_only
    /\ ResultNode.accounts # <<>>
    /\ hcall.accounts_listed = <<ResolvedParent>>
    /\ hcall.ous_listed = <<ResolvedParent>>
    /\ \E i \in DOMAIN ResultNode.org_units :
            /\ ListedOus(ResultNode.org_units[i].key) # <<>>
            /\ ListedAccounts(ResultNode.org_units[i].key) # <<>>

\* Two calls in a row with the same arguments, the first on empty caches,
\* both returning.
CalledTwice ==
    /\ hprev.op = "get_ou_hierarchy"
    /\ IsHierarchy
    /\ hprev.fresh
    /\ hprev.outcome = "return"
    /\ hcall.outcome = "return"
Visited == IF hcall.direct_descendants_only THEN {ResolvedParent}
           ELSE Subtree(ResolvedParent)
SecondCallCacheServed ==
    /\ hcall.accounts_listed = <<>>
    /\ hcall.ous_listed = <<>>
    /\ \A p \in Visited :
            /\ Occurrences(hprev.accounts_listed \o hcall.accounts_listed, p) = 1
            /\ Occurrences(hprev.ous_listed \o hcall.ous_listed, p) = 1
    /\ \A i \in DOMAIN hprev.accounts_listed : hprev.accounts_listed[i] \in Visited
    /\ \A i \in DOMAIN hprev.ous_listed : hprev.ous_listed[i] \in Visited
    /\ hcall.result = hprev.result

\* C10 as stated: calling get_ou_hierarchy twice for the same parent issues,
\* over both calls, exactly one accounts-listing and one OU-listing per
\* distinct parent visited; the second call lists nothing and returns an
\* equal result.
C10_TwiceListsOnce == CalledTwice => SecondCallCacheServed

\* C10 amended: the same, when the second call comes before any cached entry
\* has expired and the first call evicted no listing for capacity.
C10_TwiceListsOnceWhileCached ==
    (CalledTwice /\ ~hprev.stale /\ ~hprev.evicted) => SecondCallCacheServed

\* A full-mode call that visits a parent and its child, made twice.
C10_Witness ==
    /\ CalledTwice
    /\ ~hprev.stale
    /\ ~hprev.evicted
    /\ ~hcall.direct_descendants_only
    /\ Cardinality(Visited) >= 2
    /\ hprev.accounts_listed # <<>>
    /\ hcall.accounts_listed = <<>>

----------------------------------------------------------------------------
(* Claims about the naming resolution of get_ou_hierarchy.                 *)

OmittedParent == IsHierarchy /\ hcall.parent_id = None
RootListedOnce ==
    /\ hcall.roots_listed = (IF hcall.roots_asked THEN 0 ELSE 1)
    /\ hcall.outcome = "return"
    /\ Len(hcall.result) = 1
    /\ hcall.result[1].key = roots[1].Id
    /\ CacheContains(get_org_root_cache, "id")
            => CacheValue(get_org_root_cache, "id") = roots[1].Id

\* C11 as stated: over the calls without a parent argument made within the
\* TTL window, list_roots is called exactly once (by the first of them) and
\* every call resolves to the same root identifier.
C11_RootResolvedOnce == OmittedParent => RootListedOnce

\* C11 amended: the same when list_roots returns exactly one root; otherwise
\* every such call lists the roots again, raises RuntimeError and caches
\* nothing.
C11_SingleRootResolvedOnce ==
    OmittedParent =>
        IF Len(roots) = 1 THEN RootListedOnce
        ELSE /\ hcall.roots_listed = 1
             /\ hcall.outcome = "raise"
             /\ hcall.error = "RuntimeError"
             /\ hcall.result = <<>>
             /\ get_org_root_cache = <<>>

\* A call without a parent, after a call with other arguments had cached the
\* root id, resolves the root without listing the roots.
C11_Witness ==
    /\ OmittedParent
    /\ hcall.roots_asked
    /\ hprev.op = "none"
    /\ hcall.roots_listed = 0
    /\ hcall.outcome = "return"
    /\ hcall.result[1].key = RootId

RootParent == IsHierarchy /\ (hcall.parent_id = None \/ StartsWithRootPrefix(hcall.parent_id))
OuParent == IsHierarchy /\ ~(hcall.parent_id = None \/ StartsWithRootPrefix(hcall.parent_id))
Repeated == IsHierarchy /\ hprev.op = "get_ou_hierarchy"

\* The top node of a root is named by the constant and nothing is described;
\* the top node of an OU carries the name of its describe response, and only
\* that OU is described, at most once in a call.
NamedAsResolved ==
    /\ RootParent =>
        /\ hcall.described = <<>>
        /\ hcall.outcome = "return" => ResultNode.name = "Organization Root"
    /\ OuParent =>
        /\ hcall.described \in {<<>>, <<hcall.parent_id>>}
        /\ hcall.outcome = "return" =>
                ResultNode.name = DetailsName(ou_details_by_id[hcall.parent_id])

\* C12 as stated: the root is named 'Organization Root' without any describe
\* call; an OU is named through the cache-backed describe lookup, and a
\* repeated call for the same OU issues no further describe call.
C12_DescribedOnce ==
    /\ NamedAsResolved
    /\ (OuParent /\ Repeated) => hcall.described = <<>>

\* C12 amended: the repeated call issues no further describe call when it
\* comes before the cached entries have expired.
C12_DescribedOncePerWindow ==
    /\ NamedAsResolved
    /\ (OuParent /\ Repeated /\ ~hprev.stale) => hcall.described = <<>>

\* An OU described by the first call and named from the cache by the second.
C12_Witness ==
    /\ OuParent
    /\ Repeated
    /\ ~hprev.stale
    /\ hprev.described = <<hcall.parent_id>>
    /\ hcall.described = <<>>
    /\ hcall.outcome = "return"
    /\ ResultNode.name = OuNames[1]

Nameless(ou_id) == DetailsName(ou_details_by_id[ou_id]) \in {None, ""}

\* C13: a call for a non-root parent whose describe response has a missing
\* or empty name raises ValueError and returns no result, before any
\* accounts or OU listing is made; a named parent is not refused.
C13_NamelessParentRaises ==
    OuParent =>
        IF Nameless(hcall.parent_id)
        THEN /\ hcall.outcome = "raise"
             /\ hcall.error = "ValueError"
             /\ hcall.result = <<>>
             /\ hcall.accounts_listed = <<>>
             /\ hcall.ous_listed = <<>>
        ELSE hcall.outcome = "return"

\* The call for an OU whose describe response carries an empty name, made
\* while nothing of that OU is cached.
C13_Witness ==
    /\ OuParent
    /\ DetailsName(ou_details_by_id[hcall.parent_id]) = ""
    /\ hcall.described = <<hcall.parent_id>>
    /\ hcall.outcome = "raise"
    /\ hcall.parent_id \notin CacheKeys(list_accounts_cache)

----------------------------------------------------------------------------
(* Claims about get_accounts.                                              *)

IsFlatten == fcall.op = "get_accounts"
\* get_accounts was applied to the mapping get_ou_hierarchy returned.
OnProduced == IsFlatten /\ HierarchyReturned /\ fcall.result = hcall.result

\* C14: get_accounts raises ValueError exactly when the mapping has zero or
\* several top-level entries; a result returned by get_ou_hierarchy has one
\* entry, keyed by the resolved parent, so get_accounts never raises on it.
C14_OneTopLevelEntry ==
    /\ IsFlatten =>
        /\ fcall.outcome = "raise" <=> Len(fcall.result) # 1
        /\ fcall.outcome = "raise" => fcall.error = "ValueError" /\ fcall.value = <<>>
    /\ HierarchyReturned =>
        /\ Len(hcall.result) = 1
        /\ hcall.result[1].key = ResolvedParent
    /\ OnProduced => fcall.outcome = "return"

\* get_accounts has raised on a mapping of two entries built from a result
\* of get_ou_hierarchy.
C14_Witness ==
    /\ IsFlatten
    /\ HierarchyReturned
    /\ Len(fcall.result) = 2
    /\ fcall.result[1] = hcall.result[1]
    /\ fcall.outcome = "raise"

\* The result of a shallow call on a parent that has a child OU.
OnShallowWithStubs ==
    /\ OnProduced
    /\ hcall.direct_descendants_only
    /\ ResultNode.org_units # <<>>
    /\ \A i \in DOMAIN ResultNode.org_units :
            "accounts" \notin DOMAIN ResultNode.org_units[i].value

\* C15: get_accounts raises on the result of a shallow call whose child
\* stubs have no accounts key, and returns no partial list of accounts.
C15_ShallowResultRaises == OnShallowWithStubs => fcall.outcome = "raise"

----------------------------------------------------------------------------
(* Claims about the constructors.                                          *)

Constructed == ccall.op \in {"DefaultOrganizationsClientProvider", "AwsOrgView"}
\* The handle names a service, and it is not the organizations service.
TargetsOtherService == client.service \notin {"none", "organizations"}

\* C16: a constructor given a client handle of another service raises
\* TypeError; in particular a genuine client of another service is refused
\* by DefaultOrganizationsClientProvider and by AwsOrgView.
C16_OtherServiceRefused ==
    (Constructed /\ TargetsOtherService)
    => /\ ccall.outcome = "raise"
       /\ ccall.error = "TypeError"

----------------------------------------------------------------------------
(* Claims about the paginated listings.                                    *)

\* Everything the pages of id hold, in page order.
AllAccounts(id) ==
    Concat([i \in DOMAIN GoodPages(accounts_pages_by_parent[id]) |->
                GoodPages(accounts_pages_by_parent[id])[i].Accounts])
AllOus(id) ==
    Concat([i \in DOMAIN GoodPages(ous_pages_by_parent[id]) |->
                GoodPages(ous_pages_by_parent[id])[i].OrganizationalUnits])
AccountsFail(id) == SomePageFails(accounts_pages_by_parent[id])
OusFail(id) == SomePageFails(ous_pages_by_parent[id])

\* C17: a listing cache holds, for a parent, the concatenation of all its
\* pages in page order, and holds nothing for a parent one of whose pages
\* fails; a call that lists such a parent raises the remote error and
\* returns nothing, and a call that returns carries the complete listings.
C17_WholeListingsCached ==
    /\ \A i \in DOMAIN list_accounts_cache :
            /\ ~AccountsFail(list_accounts_cache[i].key)
            /\ list_accounts_cache[i].value = AllAccounts(list_accounts_cache[i].key)
    /\ \A i \in DOMAIN list_child_ous_cache :
            /\ ~OusFail(list_child_ous_cache[i].key)
            /\ list_child_ous_cache[i].value = AllOus(list_child_ous_cache[i].key)
    /\ IsHierarchy =>
        /\ (\/ \E i \in DOMAIN hcall.accounts_listed : AccountsFail(hcall.accounts_listed[i])
            \/ \E i \in DOMAIN hcall.ous_listed : OusFail(hcall.ous_listed[i]))
           <=> (hcall.outcome = "raise" /\ hcall.error = RemoteError)
        /\ hcall.outcome = "raise" => hcall.result = <<>>
        /\ hcall.outcome = "return" =>
            /\ ResultNode.accounts = AllAccounts(ResolvedParent)
            /\ [i \in DOMAIN ResultNode.org_units |-> ResultNode.org_units[i].key]
                    = [i \in DOMAIN AllOus(ResolvedParent) |-> AllOus(ResolvedParent)[i].Id]

\* A full call from the root has cached the listings of the root, failed on
\* the second page of the accounts of ou-1 and cached nothing for ou-1.
C17_Witness ==
    /\ IsHierarchy
    /\ hcall.outcome = "raise"
    /\ hcall.error = RemoteError
    /\ hcall.accounts_listed[1] = RootId
    /\ hcall.accounts_listed[Len(hcall.accounts_listed)] = OuIds[1]
    /\ accounts_pages_by_parent[OuIds[1]][2] = [Error |-> RemoteError]
    /\ RootId \in CacheKeys(list_accounts_cache)
    /\ RootId \in CacheKeys(list_child_ous_cache)
    /\ OuIds[1] \notin CacheKeys(list_accounts_cache)

----------------------------------------------------------------------------
(* Further claims about account_in_haystack.                               *)

\* C18: the walk resolves the parent of a node only when the node is not in
\* the haystack, is not a root and, with require_direct_descendant, is the
\* starting node; every parent identifier it resolves is then tested against
\* the haystack, so no list_parents result is discarded.
C18_ResolvedParentsTested ==
    IsWalk =>
        \A i \in DOMAIN call.lookups :
            /\ call.lookups[i].child_id \notin call.haystack
            /\ ~StartsWithRootPrefix(call.lookups[i].child_id)
            /\ call.require_direct_descendant => i = 1
            /\ call.lookups[i].child_id \in TestedSet
            /\ (~call.lookups[i].raised /\ ~IsFalsy(call.lookups[i].value))
                    => call.lookups[i].value \in TestedSet

\* C19: after the parent of a child has changed upstream, a lookup is
\* answered from the cache, with the parent list_parents gave before, only
\* within the TTL of that answer; a lookup that finds no entry (after the
\* expiry) calls list_parents again and returns and caches the new parent.
\* Nothing but the passing of time and the cache's capacity removes an entry.
C19_StaleOnlyWithinTtl ==
    /\ call.op # "none" =>
        \A i \in DOMAIN call.lookups :
            LET l == call.lookups[i]
                f == fetched[l.child_id]
            IN /\ l.hit => /\ ~l.remote
                           /\ l.value = f.parent
                           /\ f.age < cache_ttl
               /\ ~l.hit => /\ l.remote
                            /\ ~l.raised => /\ l.value = DirectoryParent(l.child_id)
                                            /\ f = [age |-> 0, parent |-> l.value]
    /\ \A i \in DOMAIN get_parent_cache :
            LET e == get_parent_cache[i]
            IN /\ e.value = fetched[e.key].parent
               /\ e.ttl_left + fetched[e.key].age = cache_ttl

\* The account has moved upstream and the walk still answers from the parent
\* it had cached.
C19_Witness ==
    /\ IsWalk
    /\ call.account_id = AccountId
    /\ Len(call.lookups) >= 1
    /\ call.lookups[1].hit
    /\ call.lookups[1].value # DirectoryParent(AccountId)
    /\ call.lookups[1].value \in TestedSet

----------------------------------------------------------------------------
(* Several callers on one View.                                            *)

\* What a caller that runs alone on the fresh View gets and leaves, and what
\* the lookup of the other key gets and leaves after it.
SequentialFirst == get_parent(SharedKey, <<>>)
SequentialLater == get_parent(LaterKey, SequentialFirst.cache)

\* The caller's call ended as the call of a caller running alone ends.
SameAsSequential(th) ==
    /\ th.outcome = (IF SequentialFirst.raised THEN "raise" ELSE "return")
    /\ th.value = SequentialFirst.value
    /\ th.error = SequentialFirst.error

\* Two or more callers missed the cache and called list_parents.
DuplicatedCalls == Cardinality({t \in Callers : threads[t].remote}) >= 2

----------------------------------------------------------------------------
(* The recursion of the full-mode construction.                            *)

\* The child-OU listing relation, read off the remote listings.
ChildIds(id) == {ListedOus(id)[i].Id : i \in DOMAIN ListedOus(id)}

RECURSIVE Closure(_)
Closure(S) ==
    LET more == S \cup UNION {ChildIds(x) : x \in S}
    IN IF more = S THEN S ELSE Closure(more)

\* id and the OUs reachable from it; the OUs below n.
ReachableFrom(id) == Closure({id})
Below_(n) == Closure(ChildIds(n))

\* No OU reachable from id has itself or an ancestor listed below it.
Acyclic(id) == \A n \in ReachableFrom(id) : n \notin Below_(n)

\* How often n is listed as a child among the nodes reachable from id.
TimesListed(id, n) ==
    Cardinality({<<x, i>> \in ReachableFrom(id) \X (1..MaxOus + 1) :
                    i \in DOMAIN ListedOus(x) /\ ListedOus(x)[i].Id = n})

\* The listings under id form a tree: no cycle, and every OU below id is
\* listed exactly once.
IsTreeUnder(id) ==
    /\ Acyclic(id)
    /\ \A n \in ReachableFrom(id) \ {id} : TimesListed(id, n) = 1

Building == bcall.op = "_build_ou_hierarchy"
BuildRunning == Building /\ bcall.outcome = "running"
BuildReturned == Building /\ bcall.outcome = "return"
StartName == IF StartsWithRootPrefix(bcall.parent_id) THEN RootName
             ELSE ou_details_by_id[bcall.parent_id].OrganizationalUnit.Name

\* A construction that returned ran on listings without a cycle and
\* returned the node read off the listings; on a tree it started exactly one
\* node for every OU reachable from the parent.
ReturnedOnlyWithoutCycle ==
    BuildReturned =>
        /\ Acyclic(bcall.parent_id)
        /\ bcall.value = ReferenceNode(bcall.parent_id, StartName)
        /\ IsTreeUnder(bcall.parent_id) =>
              /\ ToSet(built) = ReachableFrom(bcall.parent_id)
              /\ \A n \in ToSet(built) : Occurrences(built, n) = 1

\* C21: the full-mode construction recurses into every child OU with no
\* depth bound of its own.  Whenever the child-OU listings under the
\* requested parent have no cycle the construction returns, and on a tree
\* it has then built exactly one node per reachable OU; when a listing names
\* an ancestor (or the OU itself) as a child the construction never returns
\* and its call stack grows as far as it is allowed to.
C21_TerminatesIffAcyclic ==
    /\ []ReturnedOnlyWithoutCycle
    /\ (BuildRunning /\ Acyclic(bcall.parent_id)) ~> BuildReturned
    /\ (BuildRunning /\ ~Acyclic(bcall.parent_id)) ~> (Len(frames) = MaxFrames)

\* The construction returned on the chain root -> ou-1 -> ou-2 -> ..., with
\* a node for the root and for each OU.
C21_Witness ==
    /\ BuildReturned
    /\ IsTreeUnder(bcall.parent_id)
    /\ bcall.parent_id = RootId
    /\ Len(built) = MaxOus + 1
    /\ ChildIds(OuIds[MaxOus - 1]) = {OuIds[MaxOus]}

\* The call stack is full on listings where an OU names an ancestor as its
\* child: the same OU is being built in two activations at once.
C21_CycleWitness ==
    /\ BuildRunning
    /\ ~Acyclic(bcall.parent_id)
    /\ Len(frames) = MaxFrames
    /\ \E i, j \in DOMAIN frames : i < j /\ frames[i].parent_id = frames[j].parent_id

----------------------------------------------------------------------------
(* The caches are transparent.                                             *)

\* The state of a View that has cached nothing.
UncachedState ==
    [HierarchyState EXCEPT !.get_org_root_cache = <<>>,
                           !.describe_organizational_unit_cache = <<>>,
                           !.list_accounts_cache = <<>>,
                           !.list_child_ous_cache = <<>>]

\* The last get_ou_hierarchy call ended as the same call ends on a View
\* that has cached nothing.
HierarchyTransparent ==
    IsHierarchy =>
        LET u == get_ou_hierarchy(hcall.parent_id, hcall.direct_descendants_only,
                                  UncachedState)
        IN /\ hcall.outcome = u.outcome
           /\ hcall.error = u.error
           /\ hcall.result = u.result

\* The last account_in_haystack call ended as the same call ends on a View
\* that has cached nothing.
HaystackTransparent ==
    call.op = "account_in_haystack" =>
        LET u == account_in_haystack(call.account_id, call.haystack,
                                     call.require_direct_descendant, <<>>)
        IN /\ call.outcome = u.outcome
           /\ call.value = u.value
           /\ call.error = u.error

\* A full-mode call that returned, the call before it being a shallow call
\* on the same parent that returned.
FullAfterShallow ==
    /\ IsHierarchy
    /\ ~hcall.direct_descendants_only
    /\ hcall.outcome = "return"
    /\ hprev.op = "get_ou_hierarchy"
    /\ hprev.outcome = "return"
RemotelyListed == ToSet(hcall.accounts_listed) \cup ToSet(hcall.ous_listed)
ReusesParentListings ==
    LET P == hcall.result[1].key
    IN /\ P \notin RemotelyListed
       /\ RemotelyListed \subseteq Subtree(P) \ {P}

\* C22: on an unchanged directory, whatever calls were made before and
\* however much time has passed, get_ou_hierarchy and account_in_haystack
\* return (or raise) what they do on a View that has cached nothing.  A
\* full-mode call that follows a shallow call on the same parent finds the
\* parent's two listings cached when no time has passed in between, and
\* whenever it finds them cached it lists remotely nothing but descendants
\* of the parent.
C22_CacheTransparent ==
    /\ HierarchyTransparent
    /\ HaystackTransparent
    /\ (FullAfterShallow /\ ~hprev.ticked) => hcall.parent_cached
    /\ (FullAfterShallow /\ hcall.parent_cached) => ReusesParentListings

\* After an account_in_haystack call and a shallow call on the root, a full
\* call on the root with no time passed: the root's listings come from the
\* caches and those of both OUs below it are fetched.
C22_Witness ==
    /\ FullAfterShallow
    /\ ~hprev.ticked
    /\ hcall.parent_cached
    /\ hcall.result[1].key = RootId
    /\ ToSet(hcall.accounts_listed) = {OuIds[1], OuIds[2]}
    /\ get_parent_cache # <<>>

----------------------------------------------------------------------------
(* A describe response without a name stays cached.                        *)

\* The call before the last one had the same arguments and failed on the
\* name of ou-1, and no cached entry has expired since.
RepeatedAfterNameFailure ==
    /\ IsHierarchy
    /\ hcall.parent_id = OuIds[1]
    /\ hprev.op = "get_ou_hierarchy"
    /\ hprev.outcome = "raise"
    /\ hprev.error = "ValueError"
    /\ ~hprev.stale
NamedUpstream == ~IsFalsy(DetailsName(ou_details_by_id[OuIds[1]]))

\* C23: the describe response of an OU is cached before its name is
\* checked.  After get_ou_hierarchy has failed for an OU whose response has
\* no name or an empty one, the same call repeated before the entry expires
\* fails again with the same error and makes no describe call, also when
\* the OU has been given a name upstream in the meantime; until an entry
\* expires the nameless response is what the cache holds.
C23_NamelessResponseCached ==
    RepeatedAfterNameFailure =>
        /\ hcall.outcome = "raise"
        /\ hcall.error = "ValueError"
        /\ hcall.described = <<>>
        /\ ~hcall.stale =>
              /\ CacheContains(describe_organizational_unit_cache, OuIds[1])
              /\ IsFalsy(DetailsName(CacheValue(describe_organizational_unit_cache,
                                                OuIds[1])))

\* The repeated call failed although ou-1 has a name upstream by now; the
\* first failure came from a describe call.
C23_Witness ==
    /\ RepeatedAfterNameFailure
    /\ NamedUpstream
    /\ hprev.described = <<OuIds[1]>>
    /\ hcall.outcome = "raise"
    /\ hcall.described = <<>>

----------------------------------------------------------------------------
(* get_accounts writes to no list but its own.                             *)

Flattened == fcall.op = "get_accounts" /\ fcall.outcome = "return"

\* Every list the accounts cache holds has the accounts the directory
\* lists for its parent.
CachedListsIntact ==
    \A p \in LiveKeys(list_accounts_cache) :
        heap[CacheValue(list_accounts_cache, p)] = ListedAccounts(p)

\* The result of the last call holds now what it held when it was
\* returned, and that is what the directory lists: the parent's own
\* accounts and, in full mode, the whole node.
ResultIntact ==
    HierarchyReturned =>
        /\ DerefResult(hcall.result, heap) = hcall.returned
        /\ hcall.returned[1].value.accounts = ListedAccounts(ResolvedParent)
        /\ ~hcall.direct_descendants_only =>
              hcall.returned = <<[key |-> ResolvedParent,
                                  value |-> ReferenceNode(ResolvedParent, ResolvedName)]>>

\* The list get_accounts returned is an object of its own, with the
\* flattening of the result as it was returned: the same at every call.
FlattenFresh ==
    Flattened =>
        /\ ~IsListing(fcall.ref)
        /\ fcall.ref \notin ResultRefs(hcall.result) \cup CachedRefs(list_accounts_cache)
        /\ fcall.value = get_accounts_of(hcall.returned[1].value)

\* C24: get_accounts leaves the result and the cached account lists as they
\* were.  The list it returns is a new list, so repeated calls on the same
\* result return equal lists, and a get_ou_hierarchy call made after a
\* flatten returns nodes with the same accounts as before it.
C24_FlattenLeavesListsAlone ==
    /\ CachedListsIntact
    /\ ResultIntact
    /\ FlattenFresh

\* A full result for ou-1 obtained from the caches after an earlier result
\* for ou-1 was flattened, and itself flattened twice; the list of its top
\* node is the cached one.
C24_Witness ==
    /\ HierarchyReturned
    /\ ~hcall.direct_descendants_only
    /\ hcall.after_flatten
    /\ hcall.accounts_listed = <<>>
    /\ ResolvedParent = OuIds[1]
    /\ Flattened
    /\ fcall.repeated
    /\ Len(fcall.value) >= 2
    /\ ListingRef(OuIds[1]) \in ResultRefs(hcall.result) \cap CachedRefs(list_accounts_cache)
====
